---------------------------- MODULE Spec2Model ----------------------------
(***************************************************************************)
(* TailorCV: the storing service (content-addressed CV store), the         *)
(* RabbitMQ hand-off to the vector service, the chunker of                 *)
(* vector_service/app/embedder.py and the dataset ingest script.           *)
(*                                                                         *)
(* Python values are tagged records:                                       *)
(*   None            [t |-> "none"]                                        *)
(*   str             [t |-> "str",  v |-> <<"a", "b">>]   (one char each)  *)
(*   int             [t |-> "int",  v |-> 3]                               *)
(*   list            [t |-> "list", v |-> <<value, ...>>]                  *)
(*   dict            [t |-> "dict", v |-> << <<key, value>>, ... >>]       *)
(* A dict keeps its pairs in insertion order, as Python's does; a key is a *)
(* bare character sequence.                                                *)
(***************************************************************************)
EXTENDS Integers, Sequences, FiniteSets, TLC

(* ----------------------------- bounds ---------------------------------- *)
MaxDocs == 2
MaxQueue == 2
MaxClock == 1

(* --------------------------- Python values ----------------------------- *)
None == [t |-> "none"]
PyStr(s) == [t |-> "str", v |-> s]
PyInt(n) == [t |-> "int", v |-> n]
PyList(l) == [t |-> "list", v |-> l]
PyDict(pairs) == [t |-> "dict", v |-> pairs]

IsNone(x) == x.t = "none"
IsStr(x) == x.t = "str"
IsList(x) == x.t = "list"
IsDict(x) == x.t = "dict"

\* bool(x)
Truthy(x) ==
    CASE x.t = "none" -> FALSE
      [] x.t = "int" -> x.v # 0
      [] OTHER -> x.v # <<>>

\* x or default
OrElse(x, default) == IF Truthy(x) THEN x ELSE default

\* key in d
DictHas(d, k) == \E i \in 1..Len(d.v) : d.v[i][1] = k

\* d.get(k, default)
DictGet(d, k, default) ==
    IF DictHas(d, k)
    THEN d.v[CHOOSE i \in 1..Len(d.v) : d.v[i][1] = k][2]
    ELSE default

\* list(d.keys()), each key as a str
DictKeys(d) == [i \in 1..Len(d.v) |-> PyStr(d.v[i][1])]

(* ------------------------------ strings -------------------------------- *)
IsSpace(c) == c \in {" ", "\n", "\t"}

RECURSIVE LStrip(_)
LStrip(s) == IF s # <<>> /\ IsSpace(Head(s)) THEN LStrip(Tail(s)) ELSE s

RECURSIVE RStrip(_)
RStrip(s) ==
    IF s # <<>> /\ IsSpace(s[Len(s)]) THEN RStrip(SubSeq(s, 1, Len(s) - 1)) ELSE s

\* str.strip()
Strip(s) == RStrip(LStrip(s))

RECURSIVE JoinFrom(_, _, _)
JoinFrom(sep, parts, i) ==
    IF i > Len(parts) THEN <<>>
    ELSE IF i = Len(parts) THEN parts[i]
    ELSE parts[i] \o sep \o JoinFrom(sep, parts, i + 1)

\* sep.join(parts), parts a sequence of character sequences
Join(sep, parts) == JoinFrom(sep, parts, 1)

Digit(n) == <<"0", "1", "2", "3", "4", "5", "6", "7", "8", "9">>[n + 1]

RECURSIVE Decimal(_)
Decimal(n) == IF n < 10 THEN <<Digit(n)>> ELSE Decimal(n \div 10) \o <<Digit(n % 10)>>

\* str(x), with repr() for the elements of a container
RECURSIVE ToStr(_)
RECURSIVE Repr(_)
ToStr(x) ==
    CASE x.t = "none" -> <<"N", "o", "n", "e">>
      [] x.t = "str" -> x.v
      [] x.t = "int" -> IF x.v < 0 THEN <<"-">> \o Decimal(-x.v) ELSE Decimal(x.v)
      [] x.t = "list" ->
            <<"[">> \o Join(<<",", " ">>, [i \in 1..Len(x.v) |-> Repr(x.v[i])]) \o <<"]">>
      [] x.t = "dict" ->
            <<"{">> \o Join(<<",", " ">>,
                            [i \in 1..Len(x.v) |->
                                Repr(PyStr(x.v[i][1])) \o <<":", " ">> \o Repr(x.v[i][2])])
                   \o <<"}">>
Repr(x) == IF x.t = "str" THEN <<"'">> \o x.v \o <<"'">> ELSE ToStr(x)

(* ------------------- hashlib.sha256(...).hexdigest() ------------------- *)
LowerCase ==
    <<"a", "b", "c", "d", "e", "f", "g", "h", "i", "j", "k", "l", "m",
      "n", "o", "p", "q", "r", "s", "t", "u", "v", "w", "x", "y", "z">>
UpperCase ==
    <<"A", "B", "C", "D", "E", "F", "G", "H", "I", "J", "K", "L", "M",
      "N", "O", "P", "Q", "R", "S", "T", "U", "V", "W", "X", "Y", "Z">>

\* The UTF-8 byte of a character of the modelled alphabet.
ByteOf(c) ==
    IF \E i \in 1..Len(LowerCase) : LowerCase[i] = c
    THEN (CHOOSE i \in 1..Len(LowerCase) : LowerCase[i] = c) + (97 - 1)
    ELSE IF \E i \in 1..Len(UpperCase) : UpperCase[i] = c
    THEN (CHOOSE i \in 1..Len(UpperCase) : UpperCase[i] = c) + (65 - 1)
    ELSE CASE c = " " -> 32
           [] c = "\n" -> 10
           [] c = "\t" -> 9
           [] c = "-" -> 45
           [] c = "," -> 44
           [] c = ":" -> 58
           [] c = "_" -> 95
           [] OTHER -> 63

HexDigit(n) ==
    <<"0", "1", "2", "3", "4", "5", "6", "7", "8", "9", "a", "b", "c", "d", "e", "f">>[n + 1]

\* The digest is a function of the bytes of the text alone and is taken to be
\* collision free: the hex form of the byte string behind a leading 1.
Sha256Hex(text) ==
    <<"1">> \o [i \in 1..(2 * Len(text)) |->
                   IF i % 2 = 1 THEN HexDigit(ByteOf(text[(i + 1) \div 2]) \div 16)
                   ELSE HexDigit(ByteOf(text[(i + 1) \div 2]) % 16)]

(* ------------------------- keys and literals --------------------------- *)
\* The dict keys the code reads and writes, as Python strings.
Key ==
    [cv_id |-> <<"c", "v", "_", "i", "d">>,
     cv_text |-> <<"c", "v", "_", "t", "e", "x", "t">>,
     structured_json |-> <<"s", "t", "r", "u", "c", "t", "u", "r", "e", "d", "_", "j", "s", "o", "n">>,
     structured_sections |-> <<"s", "t", "r", "u", "c", "t", "u", "r", "e", "d", "_", "s", "e", "c", "t", "i", "o", "n", "s">>,
     metadata |-> <<"m", "e", "t", "a", "d", "a", "t", "a">>,
     structured_cv |-> <<"s", "t", "r", "u", "c", "t", "u", "r", "e", "d", "_", "c", "v">>,
     user_id |-> <<"u", "s", "e", "r", "_", "i", "d">>,
     summary |-> <<"s", "u", "m", "m", "a", "r", "y">>,
     text |-> <<"t", "e", "x", "t">>,
     contact |-> <<"c", "o", "n", "t", "a", "c", "t">>,
     experience |-> <<"e", "x", "p", "e", "r", "i", "e", "n", "c", "e">>,
     projects |-> <<"p", "r", "o", "j", "e", "c", "t", "s">>,
     skills |-> <<"s", "k", "i", "l", "l", "s">>,
     education |-> <<"e", "d", "u", "c", "a", "t", "i", "o", "n">>,
     leadership |-> <<"l", "e", "a", "d", "e", "r", "s", "h", "i", "p">>,
     certifications |-> <<"c", "e", "r", "t", "i", "f", "i", "c", "a", "t", "i", "o", "n", "s">>,
     company |-> <<"c", "o", "m", "p", "a", "n", "y">>,
     title |-> <<"t", "i", "t", "l", "e">>,
     bullets |-> <<"b", "u", "l", "l", "e", "t", "s">>,
     location |-> <<"l", "o", "c", "a", "t", "i", "o", "n">>,
     name |-> <<"n", "a", "m", "e">>,
     description |-> <<"d", "e", "s", "c", "r", "i", "p", "t", "i", "o", "n">>,
     technologies |-> <<"t", "e", "c", "h", "n", "o", "l", "o", "g", "i", "e", "s">>,
     institution |-> <<"i", "n", "s", "t", "i", "t", "u", "t", "i", "o", "n">>,
     degree |-> <<"d", "e", "g", "r", "e", "e">>,
     field |-> <<"f", "i", "e", "l", "d">>,
     gpa |-> <<"g", "p", "a">>,
     role |-> <<"r", "o", "l", "e">>,
     organization |-> <<"o", "r", "g", "a", "n", "i", "z", "a", "t", "i", "o", "n">>,
     issuer |-> <<"i", "s", "s", "u", "e", "r">>,
     date |-> <<"d", "a", "t", "e">>,
     link |-> <<"l", "i", "n", "k">>,
     start_date |-> <<"s", "t", "a", "r", "t", "_", "d", "a", "t", "e">>,
     end_date |-> <<"e", "n", "d", "_", "d", "a", "t", "e">>,
     type |-> <<"t", "y", "p", "e">>,
     index |-> <<"i", "n", "d", "e", "x">>,
     categories |-> <<"c", "a", "t", "e", "g", "o", "r", "i", "e", "s">>,
     project_name |-> <<"p", "r", "o", "j", "e", "c", "t", "_", "n", "a", "m", "e">>,
     proj_index |-> <<"p", "r", "o", "j", "_", "i", "n", "d", "e", "x">>,
     bullet_index |-> <<"b", "u", "l", "l", "e", "t", "_", "i", "n", "d", "e", "x">>,
     exp_index |-> <<"e", "x", "p", "_", "i", "n", "d", "e", "x">>,
     source |-> <<"s", "o", "u", "r", "c", "e">>,
     raw_text |-> <<"r", "a", "w", "_", "t", "e", "x", "t">>,
     section |-> <<"s", "e", "c", "t", "i", "o", "n">>,
     lang |-> <<"l", "a", "n", "g">>,
     tools |-> <<"t", "o", "o", "l", "s">>,
     interests |-> <<"i", "n", "t", "e", "r", "e", "s", "t", "s">>,
     personal_info |-> <<"p", "e", "r", "s", "o", "n", "a", "l", "_", "i", "n", "f", "o">>,
     email |-> <<"e", "m", "a", "i", "l">>,
     phone |-> <<"p", "h", "o", "n", "e">>,
     linkedin |-> <<"l", "i", "n", "k", "e", "d", "i", "n">>,
     github |-> <<"g", "i", "t", "h", "u", "b">>,
     level |-> <<"l", "e", "v", "e", "l">>,
     responsibilities |-> <<"r", "e", "s", "p", "o", "n", "s", "i", "b", "i", "l", "i", "t", "i", "e", "s">>,
     impact |-> <<"i", "m", "p", "a", "c", "t">>,
     technical |-> <<"t", "e", "c", "h", "n", "i", "c", "a", "l">>,
     programming_languages |-> <<"p", "r", "o", "g", "r", "a", "m", "m", "i", "n", "g", "_", "l", "a", "n", "g", "u", "a", "g", "e", "s">>,
     id |-> <<"i", "d">>,
     dataset_id |-> <<"d", "a", "t", "a", "s", "e", "t", "_", "i", "d">>]

\* The string literals of the code.
Lit ==
    [dash |-> <<" ", "-", " ">>,
     comma |-> <<",", " ">>,
     Technologies |-> <<"T", "e", "c", "h", "n", "o", "l", "o", "g", "i", "e", "s", ":", " ">>,
     GPA |-> <<"G", "P", "A", ":", " ">>,
     by |-> <<"b", "y", " ">>,
     object |-> <<"o", "b", "j", "e", "c", "t">>,
     list_item |-> <<"l", "i", "s", "t", "_", "i", "t", "e", "m">>,
     string |-> <<"s", "t", "r", "i", "n", "g">>,
     experience_bullet |-> <<"e", "x", "p", "e", "r", "i", "e", "n", "c", "e", "_", "b", "u", "l", "l", "e", "t">>,
     project_bullet |-> <<"p", "r", "o", "j", "e", "c", "t", "_", "b", "u", "l", "l", "e", "t">>,
     project_description |-> <<"p", "r", "o", "j", "e", "c", "t", "_", "d", "e", "s", "c", "r", "i", "p", "t", "i", "o", "n">>,
     space |-> <<" ">>,
     newline |-> <<"\n">>,
     underscore |-> <<"_">>,
     dataset |-> <<"d", "a", "t", "a", "s", "e", "t">>,
     demo_user |-> <<"d", "e", "m", "o", "-", "u", "s", "e", "r", "-", "1">>,
     Programming |-> <<"P", "r", "o", "g", "r", "a", "m", "m", "i", "n", "g", " ", "l", "a", "n", "g", "u", "a", "g", "e", "s", ":", " ">>]

(* =========================== storing_service =========================== *)
VARIABLES
    collection,   \* db["cvs"]: the documents, in insertion order
    clock,        \* what datetime.utcnow() returns next
    queue,        \* cv_embedding_queue: the messages ready for delivery
    storeLast,    \* the last storing-service operation and its outcome
    answers       \* history: <<cv_text, cv_id>> of every store_cv call that returned

storeVars == <<collection, clock, queue, storeLast, answers>>

EmptyDict == PyDict(<<>>)

\* collection.find_one({"cv_id": cv_id}): the first match, or None
find_cv_by_id(coll, cv_id) ==
    IF \E i \in 1..Len(coll) : coll[i].cv_id = cv_id
    THEN [found |-> TRUE,
          doc |-> coll[CHOOSE i \in 1..Len(coll) :
                          /\ coll[i].cv_id = cv_id
                          /\ \A j \in 1..(i - 1) : coll[j].cv_id # cv_id]]
    ELSE [found |-> FALSE, doc |-> None]

\* collection.insert_one(document) under the unique index on cv_id
insert_cv_document(coll, document) ==
    IF \E i \in 1..Len(coll) : coll[i].cv_id = document.cv_id
    THEN [ok |-> FALSE, coll |-> coll]            \* DuplicateKeyError
    ELSE [ok |-> TRUE, coll |-> Append(coll, document)]

\* Mutant: the digest also covers the structured content.
ComputeCvIdOverContent(structured_json, cv_text) ==
    Sha256Hex(cv_text \o (IF DictHas(structured_json, Key.metadata) THEN <<"a">> ELSE <<>>))

\* cv_id = hashlib.sha256(cv_text.encode('utf-8')).hexdigest()
ComputeCvId(structured_json, cv_text) == Sha256Hex(cv_text)

\* Mutant: a repeated text refreshes the stored document.
store_cv_refreshing(structured_json, cv_text, coll, now, dt, mongoUp) ==
    LET cv_id == ComputeCvId(structured_json, cv_text)
        document == [cv_id |-> cv_id,
                     cv_text |-> cv_text,
                     metadata |-> DictGet(structured_json, Key.metadata, EmptyDict),
                     structured_sections |->
                         DictGet(structured_json, Key.structured_sections, EmptyDict),
                     created_at |-> now,
                     updated_at |-> now + dt]
    IN  IF ~mongoUp
        THEN [raised |-> TRUE, cv_id |-> cv_id, status |-> "error",
              coll |-> coll, published |-> <<>>]
        ELSE IF find_cv_by_id(coll, cv_id).found
        THEN [raised |-> FALSE, cv_id |-> cv_id, status |-> "already_exists",
              coll |-> [i \in 1..Len(coll) |->
                           IF coll[i].cv_id = cv_id THEN document ELSE coll[i]],
              published |-> <<>>]
        ELSE [raised |-> FALSE, cv_id |-> cv_id, status |-> "stored",
              coll |-> Append(coll, document), published |-> <<>>]

\* store_cv(structured_json, cv_text) on collection coll; now is the first
\* utcnow(), now + dt the second. raised: an exception left the function
\* (pymongo raises when the server is unreachable: mongoUp = FALSE).
store_cv(structured_json, cv_text, coll, now, dt, mongoUp) ==
    LET cv_id == ComputeCvId(structured_json, cv_text)
        existing == find_cv_by_id(coll, cv_id)
        document == [cv_id |-> cv_id,
                     cv_text |-> cv_text,
                     metadata |-> DictGet(structured_json, Key.metadata, EmptyDict),
                     structured_sections |->
                         DictGet(structured_json, Key.structured_sections, EmptyDict),
                     created_at |-> now,
                     updated_at |-> now + dt]
        ins == insert_cv_document(coll, document)
    IN  IF ~mongoUp
        THEN [raised |-> TRUE, cv_id |-> cv_id, status |-> "error",
              coll |-> coll, published |-> <<>>]
        ELSE IF existing.found
        THEN [raised |-> FALSE, cv_id |-> cv_id, status |-> "already_exists",
              coll |-> coll, published |-> <<>>]
        ELSE IF ~ins.ok
        THEN [raised |-> TRUE, cv_id |-> cv_id, status |-> "error",
              coll |-> coll, published |-> <<>>]
        ELSE [raised |-> FALSE, cv_id |-> cv_id, status |-> "stored",
              coll |-> ins.coll, published |-> <<>>]

\* StoreCVRequest: structured_json: dict and cv_text: str are both required
ValidStoreCVRequest(payload) ==
    /\ DictHas(payload, Key.structured_json)
    /\ IsDict(DictGet(payload, Key.structured_json, None))
    /\ DictHas(payload, Key.cv_text)
    /\ IsStr(DictGet(payload, Key.cv_text, None))

(* ------------------------------- JSON ---------------------------------- *)
\* A message body is a sequence of tokens [k, s]: punctuation, a string
\* literal, a number literal, null, or bytes that are no JSON at all.
Tok(k) == [k |-> k, s |-> <<>>]
TokStr(s) == [k |-> "str", s |-> s]
TokNum(n) == [k |-> "num", s |-> Decimal(n)]

RECURSIVE ParseNat(_, _)
ParseNat(acc, digits) ==
    IF digits = <<>> THEN acc
    ELSE ParseNat(acc * 10 + (CHOOSE d \in 0..9 : Digit(d) = Head(digits)), Tail(digits))

IsScalarTok(tok) == tok.k \in {"str", "num", "null"}

ScalarOf(tok) ==
    CASE tok.k = "str" -> PyStr(tok.s)
      [] tok.k = "num" -> PyInt(ParseNat(0, tok.s))
      [] OTHER -> None

ScalarTok(x) ==
    CASE x.t = "str" -> TokStr(x.v)
      [] x.t = "int" -> TokNum(x.v)
      [] OTHER -> Tok("null")

\* json.dumps of a dict whose values are strings, numbers or None
RECURSIVE DumpMembers(_)
DumpMembers(pairs) ==
    IF pairs = <<>> THEN <<>>
    ELSE <<TokStr(pairs[1][1]), Tok(":"), ScalarTok(pairs[1][2])>>
         \o (IF Len(pairs) > 1 THEN <<Tok(",")>> ELSE <<>>)
         \o DumpMembers(Tail(pairs))

JsonDumps(d) == <<Tok("{")>> \o DumpMembers(d.v) \o <<Tok("}")>>

\* The members between the braces: key : scalar , key : scalar ...
RECURSIVE MembersOk(_)
MembersOk(toks) ==
    \/ /\ Len(toks) = 3
       /\ toks[1].k = "str" /\ toks[2].k = ":" /\ IsScalarTok(toks[3])
    \/ /\ Len(toks) > 4
       /\ toks[1].k = "str" /\ toks[2].k = ":" /\ IsScalarTok(toks[3])
       /\ toks[4].k = ","
       /\ MembersOk(SubSeq(toks, 5, Len(toks)))

RECURSIVE MembersOf(_)
MembersOf(toks) ==
    IF Len(toks) < 3 THEN <<>>
    ELSE << <<toks[1].s, ScalarOf(toks[3])>> >> \o MembersOf(SubSeq(toks, 5, Len(toks)))

RECURSIVE ElementsOk(_)
ElementsOk(toks) ==
    \/ Len(toks) = 1 /\ IsScalarTok(toks[1])
    \/ /\ Len(toks) > 2
       /\ IsScalarTok(toks[1]) /\ toks[2].k = ","
       /\ ElementsOk(SubSeq(toks, 3, Len(toks)))

RECURSIVE ElementsOf(_)
ElementsOf(toks) ==
    IF toks = <<>> THEN <<>>
    ELSE <<ScalarOf(toks[1])>> \o ElementsOf(SubSeq(toks, 3, Len(toks)))

\* json.loads(body) for scalars, flat arrays and flat objects; ok = FALSE is
\* json.JSONDecodeError
JsonLoads(body) ==
    LET n == Len(body)
        inner == SubSeq(body, 2, n - 1)
    IN  IF n = 1 /\ IsScalarTok(body[1])
        THEN [ok |-> TRUE, val |-> ScalarOf(body[1])]
        ELSE IF n >= 2 /\ body[1].k = "{" /\ body[n].k = "}"
                    /\ (inner = <<>> \/ MembersOk(inner))
        THEN [ok |-> TRUE, val |-> PyDict(MembersOf(inner))]
        ELSE IF n >= 2 /\ body[1].k = "[" /\ body[n].k = "]"
                    /\ (inner = <<>> \/ ElementsOk(inner))
        THEN [ok |-> TRUE, val |-> PyList(ElementsOf(inner))]
        ELSE [ok |-> FALSE, val |-> None]

(* --------------------- storing_service/app/events.py ------------------- *)
\* publish_cv_event(cv_id) against a broker that fails at step `fault`
\* ("none", "connect", "channel", "declare", "publish"); lost: the failure
\* took the connection down (is_closed); closeRaises: connection.close()
\* raises, which pika does only for a connection that is already gone.
\* Mutant: the except block re-raises and the finally block does not close.
publish_cv_event_reraising(cv_id, fault, lost, closeRaises) ==
    LET opened == fault # "connect"
        tryRaised == fault # "none"
        afterTry == IF ~opened THEN "none"
                    ELSE IF tryRaised /\ lost THEN "closed" ELSE "open"
        message == JsonDumps(PyDict(<< <<Key.cv_id, PyStr(cv_id)>> >>))
    IN  [raised |-> tryRaised,
         logged |-> tryRaised,
         conn |-> afterTry,
         closeCalled |-> FALSE,
         sent |-> IF tryRaised THEN <<>> ELSE <<message>>]

publish_cv_event(cv_id, fault, lost, closeRaises) ==
    LET opened == fault # "connect"          \* BlockingConnection(...) returned
        tryRaised == fault # "none"          \* a statement of the try block raised
        caught == tryRaised                  \* except Exception as e: print(...)
        afterTry == IF ~opened THEN "none"
                    ELSE IF tryRaised /\ lost THEN "closed" ELSE "open"
        closeCalled == afterTry = "open"     \* if connection and not connection.is_closed
        closeEscapes == FALSE                \* except: pass
        message == JsonDumps(PyDict(<< <<Key.cv_id, PyStr(cv_id)>> >>))
    IN  [raised |-> (tryRaised /\ ~caught) \/ (closeCalled /\ closeRaises /\ closeEscapes),
         logged |-> caught,
         conn |-> IF closeCalled THEN "closed" ELSE afterTry,
         closeCalled |-> closeCalled,
         sent |-> IF tryRaised THEN <<>> ELSE <<message>>]

(* ------------------------- the keys of a CV ---------------------------- *)

(* ================== vector_service/app/embedder.py ===================== *)
\* A function result: ok = FALSE when an exception left the function.
Ok(chunks) == [ok |-> TRUE, chunks |-> chunks]
Raised == [ok |-> FALSE, chunks |-> <<>>]

RECURSIVE FlattenFrom(_, _)
FlattenFrom(seqs, i) ==
    IF i > Len(seqs) THEN <<>> ELSE seqs[i] \o FlattenFrom(seqs, i + 1)

Flatten(seqs) == FlattenFrom(seqs, 1)

\* The results of a loop body, one per iteration: the first exception ends
\* the loop and the function.
Collect(results) ==
    IF \A i \in 1..Len(results) : results[i].ok
    THEN Ok(Flatten([i \in 1..Len(results) |-> results[i].chunks]))
    ELSE Raised

\* for x in value: a list gives its elements, a str its characters, a dict
\* its keys; None and numbers are not iterable
Iterable(x) == x.t \in {"list", "str", "dict"}
Items(x) ==
    CASE x.t = "list" -> x.v
      [] x.t = "str" -> [i \in 1..Len(x.v) |-> PyStr(<<x.v[i]>>)]
      [] x.t = "dict" -> DictKeys(x)
      [] OTHER -> <<>>

Chunk(cv_id, section, text, metadata) ==
    [cv_id |-> cv_id, section |-> section, text |-> text, metadata |-> metadata]

\* {**a, **b}: b's value wins, a's position stays
DictMerge(a, b) ==
    LET InA(k) == \E i \in 1..Len(a) : a[i][1] = k
        InB(k) == \E i \in 1..Len(b) : b[i][1] = k
        Last(k) == b[CHOOSE i \in 1..Len(b) :
                        /\ b[i][1] = k
                        /\ \A j \in (i + 1)..Len(b) : b[j][1] # k]
        added == SelectSeq([i \in 1..Len(b) |-> i],
                           LAMBDA i : /\ ~InA(b[i][1])
                                      /\ \A j \in 1..(i - 1) : b[j][1] # b[i][1])
    IN  [i \in 1..Len(a) |-> IF InB(a[i][1]) THEN Last(a[i][1]) ELSE a[i]]
        \o [n \in 1..Len(added) |-> Last(b[added[n]][1])]

\* _clean_join(parts): None, or the truthy parts as strings joined by " - "
clean_join(parts) ==
    LET clean == SelectSeq(parts, Truthy)
    IN  IF clean = <<>> THEN None
        ELSE PyStr(Join(Lit.dash, [i \in 1..Len(clean) |-> ToStr(clean[i])]))

Field(obj, k) == OrElse(DictGet(obj, k, None), PyStr(<<>>))

\* extract_text_from_object(obj, section): [ok, val], val a str or None
extract_text_from_object(obj, section) ==
    LET Val(v) == [ok |-> TRUE, val |-> v]
    IN  CASE section = Key.experience ->
                IF Truthy(OrElse(DictGet(obj, Key.bullets, None), PyList(<<>>)))
                THEN Val(None)
                ELSE Val(clean_join(<<Field(obj, Key.company), Field(obj, Key.title),
                                      Field(obj, Key.location)>>))
          [] section = Key.projects ->
                LET name == Field(obj, Key.name)
                    description == Field(obj, Key.description)
                    techs == OrElse(DictGet(obj, Key.technologies, None), PyList(<<>>))
                    shown == SelectSeq(Items(techs), Truthy)
                    techText == PyStr(Lit.Technologies
                                      \o Join(Lit.comma, [i \in 1..Len(shown) |-> ToStr(shown[i])]))
                IN  IF Truthy(techs) /\ ~Iterable(techs)
                    THEN [ok |-> FALSE, val |-> None]
                    ELSE Val(clean_join(
                             (IF Truthy(name) THEN <<name>> ELSE <<>>)
                             \o (IF Truthy(description) THEN <<description>> ELSE <<>>)
                             \o (IF Truthy(techs) THEN <<techText>> ELSE <<>>)))
          [] section = Key.education ->
                LET gpa == Field(obj, Key.gpa)
                IN  Val(clean_join(
                        <<Field(obj, Key.institution), Field(obj, Key.degree), Field(obj, Key.field)>>
                        \o (IF Truthy(gpa) THEN <<PyStr(Lit.GPA \o ToStr(gpa))>> ELSE <<>>)))
          [] section = Key.leadership ->
                Val(clean_join(<<Field(obj, Key.role), Field(obj, Key.organization),
                                 Field(obj, Key.description)>>))
          [] section = Key.certifications ->
                LET issuer == Field(obj, Key.issuer)
                    date == Field(obj, Key.date)
                IN  Val(clean_join(
                        <<Field(obj, Key.name)>>
                        \o (IF Truthy(issuer) THEN <<PyStr(Lit.by \o ToStr(issuer))>> ELSE <<>>)
                        \o (IF Truthy(date) THEN <<date>> ELSE <<>>)))
          [] OTHER -> Val(PyStr(ToStr(obj)))

\* The chunks of one item of a list section (lines 87-104)
ListItemChunks(section_name, idx, item, cv_id) ==
    LET extracted == extract_text_from_object(item, section_name)
    IN  IF IsDict(item)
        THEN IF ~extracted.ok THEN Raised
             ELSE IF Truthy(extracted.val)
             THEN Ok(<<Chunk(cv_id, section_name, extracted.val.v,
                             PyDict(DictMerge(<< <<Key.type, PyStr(Lit.object)>>,
                                                 <<Key.index, PyInt(idx)>> >>, item.v)))>>)
             ELSE Ok(<<>>)
        ELSE IF IsStr(item) /\ Strip(item.v) # <<>>
        THEN Ok(<<Chunk(cv_id, section_name, Strip(item.v),
                        PyDict(<< <<Key.type, PyStr(Lit.list_item)>>,
                                  <<Key.index, PyInt(idx)>> >>))>>)
        ELSE Ok(<<>>)

\* The body of the loop over structured_sections.items() (lines 40-114)
SectionChunks(section_name, section_data, cv_id) ==
    IF ~Truthy(section_data) THEN Ok(<<>>)
    ELSE IF section_name = Key.summary /\ IsDict(section_data)
    THEN LET summary_text == DictGet(section_data, Key.text, None)
         IN  IF ~Truthy(summary_text) THEN Ok(<<>>)
             ELSE IF ~IsStr(summary_text) THEN Raised            \* .strip()
             ELSE IF Strip(summary_text.v) = <<>> THEN Ok(<<>>)
             ELSE Ok(<<Chunk(cv_id, section_name, Strip(summary_text.v),
                             PyDict(<< <<Key.type, PyStr(Key.summary)>> >>))>>)
    ELSE IF section_name \in {Key.contact, Key.experience, Key.projects} THEN Ok(<<>>)
    ELSE IF section_name = Key.skills /\ IsDict(section_data)
    THEN LET lists == SelectSeq([i \in 1..Len(section_data.v) |-> section_data.v[i][2]],
                                LAMBDA items : Truthy(items) /\ IsList(items))
             skill_parts == Flatten([i \in 1..Len(lists) |-> lists[i].v])
         IN  IF skill_parts = <<>> THEN Ok(<<>>)
             ELSE IF \E i \in 1..Len(skill_parts) : ~IsStr(skill_parts[i])
             THEN Raised                                         \* ", ".join
             ELSE Ok(<<Chunk(cv_id, section_name,
                             Join(Lit.comma, [i \in 1..Len(skill_parts) |-> skill_parts[i].v]),
                             PyDict(<< <<Key.type, PyStr(Key.skills)>>,
                                       <<Key.categories, PyList(DictKeys(section_data))>> >>))>>)
    ELSE IF IsList(section_data)
    THEN Collect([i \in 1..Len(section_data.v) |->
                     ListItemChunks(section_name, i - 1, section_data.v[i], cv_id)])
    ELSE IF IsStr(section_data) /\ Strip(section_data.v) # <<>>
    THEN Ok(<<Chunk(cv_id, section_name, Strip(section_data.v),
                    PyDict(<< <<Key.type, PyStr(Lit.string)>> >>))>>)
    ELSE Ok(<<>>)

\* chunk_structured_sections(structured_sections, cv_id)
chunk_structured_sections(structured_sections, cv_id) ==
    IF ~IsDict(structured_sections) THEN Raised                  \* .items()
    ELSE Collect([i \in 1..Len(structured_sections.v) |->
                     SectionChunks(structured_sections.v[i][1],
                                   structured_sections.v[i][2], cv_id)])

\* The chunk of one bullet of a project (lines 211-226)
ProjectBulletChunk(project, proj_idx, bullet_idx, bullet, cv_id) ==
    LET name == DictGet(project, Key.name, PyStr(<<>>))
    IN  IF ~Truthy(bullet) THEN Ok(<<>>)
        ELSE IF ~IsStr(bullet) THEN Raised                       \* .strip()
        ELSE IF Strip(bullet.v) = <<>> THEN Ok(<<>>)
        ELSE Ok(<<Chunk(cv_id, Key.projects, ToStr(name) \o Lit.dash \o Strip(bullet.v),
                        PyDict(<< <<Key.type, PyStr(Lit.project_bullet)>>,
                                  <<Key.project_name, name>>,
                                  <<Key.proj_index, PyInt(proj_idx)>>,
                                  <<Key.bullet_index, PyInt(bullet_idx)>>,
                                  <<Key.technologies,
                                    DictGet(project, Key.technologies, PyList(<<>>))>>,
                                  <<Key.link, DictGet(project, Key.link, PyStr(<<>>))>> >>))>>)

\* The chunks of one project (lines 205-242)
ProjectChunks(project, proj_idx, cv_id) ==
    IF ~IsDict(project) THEN Raised                              \* .get
    ELSE LET name == DictGet(project, Key.name, PyStr(<<>>))
             bullets == DictGet(project, Key.bullets, PyList(<<>>))
             description == DictGet(project, Key.description, PyStr(<<>>))
         IN  IF Truthy(bullets)
             THEN IF ~Iterable(bullets) THEN Raised
                  ELSE Collect([i \in 1..Len(Items(bullets)) |->
                                   ProjectBulletChunk(project, proj_idx, i - 1,
                                                      Items(bullets)[i], cv_id)])
             ELSE IF ~Truthy(description) THEN Ok(<<>>)
             ELSE IF ~IsStr(description) THEN Raised             \* .strip()
             ELSE IF Strip(description.v) = <<>> THEN Ok(<<>>)
             ELSE Ok(<<Chunk(cv_id, Key.projects,
                             ToStr(name) \o Lit.dash \o Strip(description.v),
                             PyDict(<< <<Key.type, PyStr(Lit.project_description)>>,
                                       <<Key.project_name, name>>,
                                       <<Key.proj_index, PyInt(proj_idx)>>,
                                       <<Key.technologies,
                                         DictGet(project, Key.technologies, PyList(<<>>))>> >>))>>)

\* chunk_projects_bullets(projects_list, cv_id)
chunk_projects_bullets(projects_list, cv_id) ==
    IF ~Iterable(projects_list) THEN Raised                      \* enumerate
    ELSE Collect([i \in 1..Len(Items(projects_list)) |->
                     ProjectChunks(Items(projects_list)[i], i - 1, cv_id)])

\* Mutant: the label is the title, and the bullet is not trimmed.
ExperienceBulletTextByTitle(exp, bullet) ==
    ToStr(DictGet(exp, Key.title, PyStr(<<>>))) \o Lit.dash \o bullet.v

\* The text of an experience bullet chunk: f"{company} - {bullet.strip()}"
ExperienceBulletText(exp, bullet) ==
    ToStr(DictGet(exp, Key.company, PyStr(<<>>))) \o Lit.dash \o Strip(bullet.v)

\* The chunk of one bullet of an experience entry (lines 265-282)
ExperienceBulletChunk(exp, exp_idx, bullet_idx, bullet, cv_id) ==
    IF ~Truthy(bullet) THEN Ok(<<>>)
    ELSE IF ~IsStr(bullet) THEN Raised                           \* .strip()
    ELSE IF Strip(bullet.v) = <<>> THEN Ok(<<>>)
    ELSE Ok(<<Chunk(cv_id, Key.experience, ExperienceBulletText(exp, bullet),
                    PyDict(<< <<Key.type, PyStr(Lit.experience_bullet)>>,
                              <<Key.company, DictGet(exp, Key.company, PyStr(<<>>))>>,
                              <<Key.title, DictGet(exp, Key.title, PyStr(<<>>))>>,
                              <<Key.exp_index, PyInt(exp_idx)>>,
                              <<Key.bullet_index, PyInt(bullet_idx)>>,
                              <<Key.location, DictGet(exp, Key.location, PyStr(<<>>))>>,
                              <<Key.start_date, DictGet(exp, Key.start_date, PyStr(<<>>))>>,
                              <<Key.end_date, DictGet(exp, Key.end_date, PyStr(<<>>))>> >>))>>)

\* The chunks of one experience entry (lines 259-282)
ExperienceChunks(exp, exp_idx, cv_id) ==
    IF ~IsDict(exp) THEN Raised                                  \* .get
    ELSE LET bullets == DictGet(exp, Key.bullets, PyList(<<>>))
         IN  IF ~Iterable(bullets) THEN Raised                   \* for bullet in None
             ELSE Collect([i \in 1..Len(Items(bullets)) |->
                              ExperienceBulletChunk(exp, exp_idx, i - 1,
                                                    Items(bullets)[i], cv_id)])

\* chunk_experience_bullets(experience_list, cv_id)
chunk_experience_bullets(experience_list, cv_id) ==
    IF ~Iterable(experience_list) THEN Raised                    \* enumerate
    ELSE Collect([i \in 1..Len(Items(experience_list)) |->
                     ExperienceChunks(Items(experience_list)[i], i - 1, cv_id)])

(* ------------------- storing service: the operations ------------------- *)
VARIABLES
    pubLast       \* the last publish_cv_event call and its outcome

\* What GeminiService may hand over as structured_json.
SJ_Acme ==
    PyDict(<< <<Key.metadata, PyDict(<< <<Key.source, PyStr(<<"a">>)>> >>)>>,
              <<Key.structured_sections,
                PyDict(<< <<Key.experience,
                            PyList(<<PyDict(<< <<Key.company, PyStr(<<"A">>)>>,
                                               <<Key.title, PyStr(<<"b">>)>>,
                                               <<Key.bullets,
                                                 PyList(<<PyStr(<<"a", " ", "b">>)>>)>> >>)>>)>> >>)>> >>)
SJ_NullSections == PyDict(<< <<Key.structured_sections, None>> >>)
StructuredJsons == {SJ_Acme, SJ_NullSections}

CvTexts == {<<>>, <<" ">>, <<"a">>}

\* The request bodies POSTed to /internal/store_cv.
StorePayloads ==
    {PyDict(<< <<Key.structured_json, sj>>, <<Key.cv_text, PyStr(text)>> >>) :
        sj \in StructuredJsons, text \in CvTexts}
    \cup {PyDict(<< <<Key.user_id, PyStr(<<"a">>)>>, <<Key.structured_cv, SJ_Acme>>,
                    <<Key.cv_text, PyStr(<<"a">>)>> >>)}

StoreIdle ==
    [op |-> "none", code |-> 0, cv_text |-> None, structured_json |-> None,
     cv_id |-> <<>>, status |-> "", published |-> <<>>, doc |-> None]

PubIdle ==
    [called |-> FALSE, cv_id |-> <<>>, fault |-> "none", raised |-> FALSE,
     logged |-> FALSE, conn |-> "none", closeCalled |-> FALSE, sent |-> <<>>]

Message(body) == [body |-> body]

RECURSIVE Messages(_)
Messages(bodies) ==
    IF bodies = <<>> THEN <<>> ELSE <<Message(Head(bodies))>> \o Messages(Tail(bodies))

\* POST /internal/store_cv: pydantic validation, store_cv, any exception -> 500
StoreCvEndpoint(payload, dt, mongoUp) ==
    LET sj == DictGet(payload, Key.structured_json, None)
        text == DictGet(payload, Key.cv_text, None)
        r == store_cv(sj, text.v, collection, clock, dt, mongoUp)
    IN  IF ~ValidStoreCVRequest(payload)
        THEN /\ storeLast' = [StoreIdle EXCEPT !.op = "store_cv", !.code = 422,
                                               !.cv_text = text]
             /\ UNCHANGED <<collection, clock, queue, answers>>
        ELSE IF r.raised
        THEN /\ storeLast' = [StoreIdle EXCEPT !.op = "store_cv", !.code = 500,
                                               !.cv_text = text, !.structured_json = sj]
             /\ UNCHANGED <<collection, clock, queue, answers>>
        ELSE /\ Len(r.coll) <= MaxDocs
             /\ clock + dt <= MaxClock
             /\ Len(queue) + Len(r.published) <= MaxQueue
             /\ collection' = r.coll
             /\ clock' = IF r.status = "stored" THEN clock + dt ELSE clock
             /\ queue' = queue \o Messages(r.published)
             /\ answers' = answers \cup {<<text.v, r.cv_id>>}
             /\ storeLast' = [StoreIdle EXCEPT !.op = "store_cv", !.code = 200,
                                               !.cv_text = text, !.structured_json = sj,
                                               !.cv_id = r.cv_id, !.status = r.status,
                                               !.published = r.published]

\* get_cv_by_id(cv_id) behind GET /internal/get_cv/{cv_id}
get_cv_endpoint(coll, cv_id, mongoUp) ==
    LET cv == find_cv_by_id(coll, cv_id)
    IN  IF ~mongoUp THEN [code |-> 500, doc |-> None]
        ELSE IF ~cv.found THEN [code |-> 404, doc |-> None]
        ELSE [code |-> 200, doc |-> cv.doc]

GetCvEndpoint(cv_id, mongoUp) ==
    LET r == get_cv_endpoint(collection, cv_id, mongoUp)
    IN  /\ storeLast' = [StoreIdle EXCEPT !.op = "get_cv", !.code = r.code,
                                          !.cv_id = cv_id, !.doc = r.doc]
        /\ UNCHANGED <<collection, clock, queue, answers>>

PublishFaults == {"none", "connect", "channel", "declare", "publish"}

PublishCvEvent(cv_id, fault, lost, closeRaises) ==
    LET r == publish_cv_event(cv_id, fault, lost, closeRaises)
    IN  /\ Len(queue) + Len(r.sent) <= MaxQueue
        /\ queue' = queue \o Messages(r.sent)
        /\ pubLast' = [called |-> TRUE, cv_id |-> cv_id, fault |-> fault,
                       raised |-> r.raised, logged |-> r.logged, conn |-> r.conn,
                       closeCalled |-> r.closeCalled, sent |-> r.sent]
        /\ UNCHANGED <<collection, clock, storeLast, answers>>

CvIds == {Sha256Hex(text) : text \in CvTexts}

StoreNext ==
    \/ \E payload \in StorePayloads, dt \in {0, 1}, mongoUp \in BOOLEAN :
          StoreCvEndpoint(payload, dt, mongoUp) /\ UNCHANGED pubLast
    \/ \E cv_id \in CvIds, mongoUp \in BOOLEAN :
          GetCvEndpoint(cv_id, mongoUp) /\ UNCHANGED pubLast

\* publish_cv_event beside a storing service that takes one request shape
PublishNext ==
    \/ \E cv_id \in CvIds, fault \in PublishFaults, lost \in BOOLEAN,
          closeRaises \in BOOLEAN :
          PublishCvEvent(cv_id, fault, lost, closeRaises)
    \/ \E mongoUp \in BOOLEAN :
          /\ StoreCvEndpoint(PyDict(<< <<Key.structured_json, SJ_Acme>>,
                                       <<Key.cv_text, PyStr(<<"a">>)>> >>), 0, mongoUp)
          /\ UNCHANGED pubLast

(* ============================ vector_service =========================== *)
VARIABLES
    inflight,     \* delivered to the consumer and not settled yet
    consumer,     \* the consumer thread: "starting", "consuming" or "stopped"
    cbLast,       \* the last run of callback and its outcome
    index         \* the vector backend: the vectors upserted so far

consumeVars == <<inflight, consumer, cbLast, index>>

VARIABLES
    chunkIn,      \* the structured_sections handed to the chunkers
    chunkOut      \* what each chunker returned for chunkIn, once it ran

chunkVars == <<chunkIn, chunkOut>>

VARIABLES
    dataset_cvs,  \* the Mongo collection the ingest script fills
    ingestLast    \* the last record the ingest loop took, and the one before

ingestVars == <<dataset_cvs, ingestLast>>

VARIABLES
    storeCalls,   \* the store_cv calls in flight in the worker processes
    redelivery,   \* history: the enqueues and deliveries of the tracked event
    chunkPrev,    \* what each chunker returned the time before
    model,        \* embedder._model, and history: how often it was loaded
    embedLast,    \* the last call of embed_text or embed_chunks and its outcome
    attachLast,   \* the last attach_cv request of the gateway and its response
    script        \* the run of the ingest script: where main() stands

moreVars == <<storeCalls, redelivery, chunkPrev, model, embedLast, attachLast, script>>

vars == <<storeVars, pubLast, consumeVars, chunkVars, ingestVars, moreVars>>

\* process_cv_for_embedding(cv_id): fetch the CV over HTTP and read its
\* sections; chunking, embedding and the upsert are TODO comments.
process_cv_for_embedding(cv_id, coll, storeUp, mongoUp) ==
    LET response == get_cv_endpoint(coll, ToStr(cv_id), mongoUp)
        structured_sections == response.doc.structured_sections
    IN  IF ~storeUp
        THEN [raised |-> TRUE, fetched |-> FALSE, upserts |-> <<>>]   \* requests raises
        ELSE IF response.code # 200
        THEN [raised |-> TRUE, fetched |-> FALSE, upserts |-> <<>>]
        ELSE IF ~IsDict(structured_sections)
        THEN [raised |-> TRUE, fetched |-> TRUE, upserts |-> <<>>]    \* .keys()
        ELSE [raised |-> FALSE, fetched |-> TRUE, upserts |-> <<>>]

\* Mutant: the message is acknowledged before it is processed.
callback_ack_first(body, coll, storeUp, mongoUp, chanOk) ==
    LET data == JsonLoads(body)
        cv_id == DictGet(data.val, Key.cv_id, None)
        run == process_cv_for_embedding(cv_id, coll, storeUp, mongoUp)
        valid == data.ok /\ IsDict(data.val) /\ Truthy(cv_id)
        calls == IF ~data.ok \/ ~IsDict(data.val) THEN <<"nack_requeue">>
                 ELSE IF ~Truthy(cv_id) THEN <<"nack_drop">>
                 ELSE <<"ack">>
    IN  [calls |-> calls, processed |-> valid,
         processRaised |-> valid /\ run.raised,
         upserts |-> <<>>,
         settle |-> IF chanOk THEN calls[1] ELSE "none",
         escaped |-> ~chanOk]

\* Mutant: a processed message is put back on the queue instead of acked.
callback_requeue_processed(body, coll, storeUp, mongoUp, chanOk) ==
    LET data == JsonLoads(body)
        cv_id == DictGet(data.val, Key.cv_id, None)
        run == process_cv_for_embedding(cv_id, coll, storeUp, mongoUp)
        valid == data.ok /\ IsDict(data.val) /\ Truthy(cv_id)
        calls == IF data.ok /\ IsDict(data.val) /\ ~Truthy(cv_id)
                 THEN <<"nack_drop">> ELSE <<"nack_requeue">>
    IN  [calls |-> calls, processed |-> valid,
         processRaised |-> valid /\ run.raised,
         upserts |-> <<>>,
         settle |-> IF chanOk THEN calls[1] ELSE "none",
         escaped |-> ~chanOk]

\* Mutant: a delivery whose processing raised is rejected without requeue.
callback_dropping_failed(body, coll, storeUp, mongoUp, chanOk) ==
    LET data == JsonLoads(body)
        cv_id == DictGet(data.val, Key.cv_id, None)
        run == process_cv_for_embedding(cv_id, coll, storeUp, mongoUp)
        valid == data.ok /\ IsDict(data.val) /\ Truthy(cv_id)
        calls == IF ~data.ok \/ ~IsDict(data.val) THEN <<"nack_requeue">>
                 ELSE IF ~Truthy(cv_id) \/ run.raised THEN <<"nack_drop">>
                 ELSE <<"ack">>
    IN  [calls |-> calls, processed |-> valid,
         processRaised |-> valid /\ run.raised,
         upserts |-> <<>>,
         settle |-> IF chanOk THEN calls[1] ELSE "none",
         escaped |-> ~chanOk]

\* callback(ch, method, properties, body). calls: the settlements issued on
\* the channel, in order; chanOk = FALSE: the channel is gone and every
\* basic_ack / basic_nack raises. escaped: an exception left callback.
callback(body, coll, storeUp, mongoUp, chanOk) ==
    LET data == JsonLoads(body)
        isObject == data.ok /\ IsDict(data.val)
        cv_id == DictGet(data.val, Key.cv_id, None)
        run == process_cv_for_embedding(cv_id, coll, storeUp, mongoUp)
        Out(calls, processed, r) ==
            [calls |-> calls, processed |-> processed,
             processRaised |-> processed /\ r.raised,
             upserts |-> IF processed THEN r.upserts ELSE <<>>,
             settle |-> IF chanOk THEN calls[1] ELSE "none",
             escaped |-> ~chanOk]
        none == [raised |-> FALSE, fetched |-> FALSE, upserts |-> <<>>]
    IN  IF ~data.ok \/ ~isObject
        THEN Out(<<"nack_requeue">>, FALSE, none)     \* json.loads or .get raised
        ELSE IF ~Truthy(cv_id)
        THEN IF chanOk
             THEN Out(<<"nack_drop">>, FALSE, none)
             ELSE Out(<<"nack_drop", "nack_requeue">>, FALSE, none)
        ELSE IF run.raised
        THEN Out(<<"nack_requeue">>, TRUE, run)
        ELSE IF chanOk
        THEN Out(<<"ack">>, TRUE, run)
        ELSE Out(<<"ack", "nack_requeue">>, TRUE, run)

\* The bodies a client of the broker may publish to cv_embedding_queue.
Event(cv_id) == JsonDumps(PyDict(<< <<Key.cv_id, cv_id>> >>))
Bodies ==
    {Event(PyStr(Sha256Hex(<<"a">>))),       \* a stored CV with an experience bullet
     Event(PyStr(Sha256Hex(<<" ">>))),       \* a stored CV whose sections are null
     Event(PyStr(Sha256Hex(<<"b">>))),       \* no such CV
     Event(PyStr(<<>>)),                     \* {"cv_id": ""}
     Event(None),                            \* {"cv_id": null}
     JsonDumps(PyDict(<< <<Key.user_id, PyStr(<<"a">>)>> >>)),   \* no cv_id key
     <<Tok("["), TokStr(Key.cv_id), Tok("]")>>,                   \* a JSON array
     <<Tok("{"), TokStr(Key.cv_id), Tok("junk")>>}                \* not JSON

CbIdle ==
    [ran |-> FALSE, body |-> <<>>, calls |-> <<>>, processed |-> FALSE,
     processRaised |-> FALSE, settle |-> "none", escaped |-> FALSE]

\* The store as two store_cv calls leave it.
StoredCollection ==
    LET first == store_cv(SJ_Acme, <<"a">>, <<>>, 0, 0, TRUE)
    IN  store_cv(SJ_NullSections, <<" ">>, first.coll, 0, 1, TRUE).coll

\* start_consumer(): connect, declare, basic_qos(prefetch_count=1), consume;
\* a failure is printed and the thread ends.
StartConsumer(brokerUp) ==
    /\ consumer = "starting"
    /\ consumer' = IF brokerUp THEN "consuming" ELSE "stopped"
    /\ UNCHANGED <<storeVars, pubLast, inflight, cbLast, index>>

\* A client publishes a persistent message to the durable queue.
BrokerEnqueue(body) ==
    /\ Len(queue) + Len(inflight) < MaxQueue
    /\ queue' = Append(queue, Message(body))
    /\ UNCHANGED <<collection, clock, storeLast, answers, pubLast, consumeVars>>

PrefetchCount == 1

\* Mutant: the broker delivers without regard to the unsettled messages.
BrokerDeliverUnlimited ==
    /\ consumer = "consuming"
    /\ queue # <<>>
    /\ inflight' = Append(inflight, Head(queue))
    /\ queue' = Tail(queue)
    /\ UNCHANGED <<collection, clock, storeLast, answers, pubLast, consumer, cbLast, index>>

\* The broker hands the head of the queue to the consumer, as
\* long as fewer than prefetch_count deliveries are unsettled (basic_qos).
BrokerDeliver ==
    /\ consumer = "consuming"
    /\ Len(inflight) < PrefetchCount
    /\ queue # <<>>
    /\ inflight' = Append(inflight, Head(queue))
    /\ queue' = Tail(queue)
    /\ UNCHANGED <<collection, clock, storeLast, answers, pubLast, consumer, cbLast, index>>

\* callback runs on the delivered message; the broker applies the settlement.
\* An exception that leaves callback ends start_consuming and the thread, and
\* the broker requeues what the closed channel left unsettled.
Callback(storeUp, mongoUp, chanOk) ==
    /\ consumer = "consuming"
    /\ inflight # <<>>
    /\ LET msg == Head(inflight)
           r == callback(msg.body, collection, storeUp, mongoUp, chanOk)
       IN  /\ cbLast' = [ran |-> TRUE, body |-> msg.body, calls |-> r.calls,
                         processed |-> r.processed, processRaised |-> r.processRaised,
                         settle |-> r.settle, escaped |-> r.escaped]
           /\ inflight' = Tail(inflight)
           /\ queue' = IF r.settle \in {"nack_requeue", "none"}
                       THEN <<msg>> \o queue ELSE queue
           /\ consumer' = IF r.escaped THEN "stopped" ELSE consumer
           /\ index' = index \o r.upserts
    /\ UNCHANGED <<collection, clock, storeLast, answers, pubLast>>

\* The consumer's connection drops between callbacks.
ConnectionDrop ==
    /\ consumer = "consuming"
    /\ consumer' = "stopped"
    /\ queue' = inflight \o queue
    /\ inflight' = <<>>
    /\ UNCHANGED <<collection, clock, storeLast, answers, pubLast, cbLast, index>>

ConsumeNext ==
    \/ \E brokerUp \in BOOLEAN : StartConsumer(brokerUp)
    \/ \E body \in Bodies : BrokerEnqueue(body)
    \/ BrokerDeliver
    \/ \E storeUp \in BOOLEAN, mongoUp \in BOOLEAN, chanOk \in BOOLEAN :
          Callback(storeUp, mongoUp, chanOk)
    \/ ConnectionDrop

NotRun == [ran |-> FALSE, ok |-> TRUE, chunks |-> <<>>]

\* The worker processes of the storing service that may run store_cv at once.
MaxCallers == 2
Callers == 1..MaxCallers

CallIdle ==
    [pc |-> "idle", cv_text |-> <<>>, cv_id |-> <<>>, document |-> None, status |-> ""]

EmbedIdle ==
    [op |-> "none", texts |-> <<>>, cached |-> FALSE, raised |-> FALSE, error |-> "",
     out |-> <<>>, instance |-> 0]

NoRun == [record |-> None, status |-> "none", cv_id |-> <<>>, ids |-> {}, count |-> 0]

\* No attach_cv request yet.
AttachIdle ==
    [ran |-> FALSE, cv_text |-> None, gemini |-> "none", storeUp |-> FALSE,
     mongoUp |-> FALSE, sent |-> None, code |-> 0, cv_id |-> None]

\* main() of the ingest script before its first record. taken: the records
\* taken from the dataset; load: what get_model did in the last turn.
ScriptStart == [pc |-> "running", taken |-> 0, load |-> "none", status |-> "none"]

\* Nothing stored, published, consumed, chunked or ingested yet.
Init ==
    /\ collection = <<>>
    /\ clock = 0
    /\ queue = <<>>
    /\ storeLast = StoreIdle
    /\ answers = {}
    /\ pubLast = PubIdle
    /\ inflight = <<>>
    /\ consumer = "starting"
    /\ cbLast = CbIdle
    /\ index = <<>>
    /\ chunkIn = EmptyDict
    /\ chunkOut = [base |-> NotRun, exp |-> NotRun, proj |-> NotRun]
    /\ dataset_cvs = <<>>
    /\ ingestLast = [last |-> NoRun, before |-> NoRun]
    /\ storeCalls = [c \in Callers |-> CallIdle]
    /\ redelivery = [enqueued |-> 0, delivered |-> 0, log |-> <<>>]
    /\ chunkPrev = [base |-> NotRun, exp |-> NotRun, proj |-> NotRun]
    /\ model = [instance |-> 0, loads |-> 0]
    /\ embedLast = EmbedIdle
    /\ attachLast = AttachIdle
    /\ script = ScriptStart

\* The consumer starts beside a store that holds two records.
ConsumeInit ==
    /\ collection = StoredCollection
    /\ clock = 1
    /\ queue = <<>>
    /\ storeLast = StoreIdle
    /\ answers = {}
    /\ pubLast = PubIdle
    /\ inflight = <<>>
    /\ consumer = "starting"
    /\ cbLast = CbIdle
    /\ index = <<>>
    /\ chunkIn = EmptyDict
    /\ chunkOut = [base |-> NotRun, exp |-> NotRun, proj |-> NotRun]
    /\ dataset_cvs = <<>>
    /\ ingestLast = [last |-> NoRun, before |-> NoRun]
    /\ storeCalls = [c \in Callers |-> CallIdle]
    /\ redelivery = [enqueued |-> 0, delivered |-> 0, log |-> <<>>]
    /\ chunkPrev = [base |-> NotRun, exp |-> NotRun, proj |-> NotRun]
    /\ model = [instance |-> 0, loads |-> 0]
    /\ embedLast = EmbedIdle
    /\ attachLast = AttachIdle
    /\ script = ScriptStart

SpecStore ==
    Init /\ [][StoreNext /\ UNCHANGED <<consumeVars, chunkVars, ingestVars, moreVars>>]_vars

SpecPublish ==
    Init /\ [][PublishNext /\ UNCHANGED <<consumeVars, chunkVars, ingestVars, moreVars>>]_vars

SpecConsume ==
    ConsumeInit /\ [][ConsumeNext /\ UNCHANGED <<chunkVars, ingestVars, moreVars>>]_vars

(* ======================= the chunkers on their inputs ================== *)
MaxBullets == 3

\* Every sequence over S of at most n elements.
SeqsUpTo(S, n) == UNION {[1..k -> S] : k \in 0..n}

Missing == [t |-> "missing"]

\* A dict of the given pairs, without those whose value is Missing.
Obj(pairs) == PyDict(SelectSeq(pairs, LAMBDA kv : kv[2] # Missing))

\* The strings of the inputs.
Txt ==
    [x |-> PyStr(<<"x">>),
     y |-> PyStr(<<" ", "y", " ">>),
     blank |-> PyStr(<<" ">>),
     empty |-> PyStr(<<>>),
     A |-> PyStr(<<"A">>),
     B |-> PyStr(<<"B">>),
     P |-> PyStr(<<"P">>),
     d |-> PyStr(<<"d">>)]

BulletLists(atoms) == {PyList(l) : l \in SeqsUpTo(atoms, MaxBullets)}

\* One experience entry: company and bullets present, None, blank or missing.
ExpFamily ==
    {Obj(<< <<Key.experience,
              PyList(<<Obj(<< <<Key.company, company>>, <<Key.title, Txt.d>>,
                              <<Key.bullets, bullets>> >>)>>)>> >>) :
        company \in {Missing, None, Txt.A},
        bullets \in {Missing, None} \cup BulletLists({None, Txt.empty, Txt.blank, Txt.x, Txt.y})}

\* One project: name, description and bullets present, None, blank or missing.
ProjFamily ==
    {Obj(<< <<Key.projects,
              PyList(<<Obj(<< <<Key.name, name>>, <<Key.description, description>>,
                              <<Key.bullets, bullets>> >>)>>)>> >>) :
        name \in {Missing, Txt.P},
        description \in {Missing, None, Txt.blank, Txt.d},
        bullets \in {Missing, None} \cup BulletLists({None, Txt.blank, Txt.x})}

NonBlankLists == BulletLists({Txt.x, Txt.y}) \ {PyList(<<>>)}

\* An experience entry and a project, each with non-blank bullets.
BulletFamily ==
    {Obj(<< <<Key.experience,
              PyList(<<Obj(<< <<Key.company, Txt.A>>, <<Key.bullets, eb>> >>)>>)>>,
            <<Key.projects,
              PyList(<<Obj(<< <<Key.name, Txt.P>>, <<Key.bullets, pb>> >>)>>)>> >>) :
        eb \in NonBlankLists, pb \in NonBlankLists}

\* Two experience entries and two projects, each with one non-blank bullet
\* or two.
PairFamily ==
    {Obj(<< <<Key.experience,
              PyList(<<Obj(<< <<Key.company, Txt.A>>, <<Key.bullets, PyList(b1)>> >>),
                       Obj(<< <<Key.company, Txt.B>>, <<Key.bullets, PyList(b2)>> >>)>>)>>,
            <<Key.projects,
              PyList(<<Obj(<< <<Key.name, Txt.P>>, <<Key.bullets, PyList(b2)>> >>),
                       Obj(<< <<Key.bullets, PyList(b1)>> >>)>>)>> >>) :
        b1 \in {<<Txt.x>>, <<Txt.y, Txt.x>>}, b2 \in {<<Txt.y>>, <<Txt.x, Txt.y>>}}

\* An experience entry and a project with the same empty bullets list and the
\* same description, present, None, blank or missing.
DescFamily ==
    {Obj(<< <<Key.experience,
              PyList(<<Obj(<< <<Key.company, Txt.A>>, <<Key.description, description>>,
                              <<Key.bullets, PyList(<<>>)>> >>)>>)>>,
            <<Key.projects,
              PyList(<<Obj(<< <<Key.name, Txt.P>>, <<Key.description, description>>,
                              <<Key.bullets, PyList(<<>>)>> >>)>>)>> >>) :
        description \in {Missing, None, Txt.blank, Txt.d, Txt.y}}

SummaryValues ==
    {Missing, None, Txt.blank, Txt.y, EmptyDict,
     Obj(<< <<Key.text, Txt.y>> >>), Obj(<< <<Key.text, Txt.blank>> >>),
     Obj(<< <<Key.text, None>> >>)}

SkillsValues ==
    {Missing, None,
     Obj(<< <<Key.lang, PyList(<<Txt.x, Txt.y>>)>>, <<Key.tools, PyList(<<>>)>> >>),
     Obj(<< <<Key.lang, PyList(<<Txt.empty>>)>> >>),
     Obj(<< <<Key.lang, None>>, <<Key.tools, PyList(<<Txt.x>>)>> >>),
     Obj(<< <<Key.lang, PyList(<<Txt.x, None>>)>> >>),
     PyList(<<Txt.x, Txt.blank>>)}

EducationValues ==
    {Missing, PyList(<<>>),
     PyList(<<Obj(<< <<Key.institution, Txt.A>>, <<Key.degree, Txt.d>>, <<Key.gpa, PyInt(3)>> >>)>>),
     PyList(<<Obj(<< <<Key.institution, Txt.blank>> >>)>>),
     PyList(<<Obj(<< <<Key.institution, None>>, <<Key.degree, None>> >>)>>),
     PyList(<<EmptyDict, Obj(<< <<Key.degree, Txt.d>>, <<Key.type, Txt.x>> >>)>>)}

\* The sections outside experience and projects.
BaseFamily ==
    {Obj(<< <<Key.summary, summary>>, <<Key.contact, Obj(<< <<Key.name, Txt.A>> >>)>>,
            <<Key.skills, skills>>, <<Key.education, education>>,
            <<Key.interests, PyList(<<Txt.x, Txt.blank, Txt.y>>)>> >>) :
        summary \in SummaryValues, skills \in SkillsValues, education \in EducationValues}

ChunkInputs ==
    ExpFamily \cup ProjFamily \cup BulletFamily \cup PairFamily \cup DescFamily \cup BaseFamily

ChunkCvId == Sha256Hex(<<"a">>)

Ran(r) == [ran |-> TRUE, ok |-> r.ok, chunks |-> r.chunks]

\* base_chunks = chunk_structured_sections(structured_sections, cv_id)
ChunkBase ==
    /\ ~chunkOut.base.ran
    /\ chunkOut' = [chunkOut EXCEPT
                       !.base = Ran(chunk_structured_sections(chunkIn, ChunkCvId))]
    /\ UNCHANGED chunkIn

\* exp_list = structured_sections.get("experience", []) or []
ExpList(structured_sections) ==
    OrElse(DictGet(structured_sections, Key.experience, PyList(<<>>)), PyList(<<>>))

\* proj_list = structured_sections.get("projects", []) or []
ProjList(structured_sections) ==
    OrElse(DictGet(structured_sections, Key.projects, PyList(<<>>)), PyList(<<>>))

ChunkExperience ==
    /\ ~chunkOut.exp.ran
    /\ chunkOut' = [chunkOut EXCEPT
                       !.exp = Ran(chunk_experience_bullets(ExpList(chunkIn), ChunkCvId))]
    /\ UNCHANGED chunkIn

ChunkProjects ==
    /\ ~chunkOut.proj.ran
    /\ chunkOut' = [chunkOut EXCEPT
                       !.proj = Ran(chunk_projects_bullets(ProjList(chunkIn), ChunkCvId))]
    /\ UNCHANGED chunkIn

ChunkInit ==
    /\ collection = <<>>
    /\ clock = 0
    /\ queue = <<>>
    /\ storeLast = StoreIdle
    /\ answers = {}
    /\ pubLast = PubIdle
    /\ inflight = <<>>
    /\ consumer = "starting"
    /\ cbLast = CbIdle
    /\ index = <<>>
    /\ chunkIn \in ChunkInputs
    /\ chunkOut = [base |-> NotRun, exp |-> NotRun, proj |-> NotRun]
    /\ dataset_cvs = <<>>
    /\ ingestLast = [last |-> NoRun, before |-> NoRun]
    /\ storeCalls = [c \in Callers |-> CallIdle]
    /\ redelivery = [enqueued |-> 0, delivered |-> 0, log |-> <<>>]
    /\ chunkPrev = [base |-> NotRun, exp |-> NotRun, proj |-> NotRun]
    /\ model = [instance |-> 0, loads |-> 0]
    /\ embedLast = EmbedIdle
    /\ attachLast = AttachIdle
    /\ script = ScriptStart

ChunkNext == ChunkBase \/ ChunkExperience \/ ChunkProjects

SpecChunk ==
    ChunkInit /\ [][ChunkNext /\ UNCHANGED <<storeVars, pubLast, consumeVars, ingestVars, moreVars>>]_vars

(* ===================== scripts/ingest_dataset.py ======================= *)

\* d.get(k)
Get(d, k) == DictGet(d, k, None)

\* [x for x in xs if x]
Truthies(xs) == SelectSeq(xs, Truthy)

StrsOf(xs) == [i \in 1..Len(xs) |-> xs[i].v]

\* sep.join(x for x in xs if x)
JoinTruthy(sep, xs) == Join(sep, StrsOf(Truthies(xs)))

\* if line: parts.append(line)
AsPart(line) == IF line = <<>> THEN <<>> ELSE <<PyStr(line)>>

\* record.get(key, default) or default
GetOr(record, key, default) == OrElse(DictGet(record, key, default), default)

\* One education line of the cv_text (lines 198-212)
EducationLine(edu) ==
    LET inst == GetOr(edu, Key.institution, EmptyDict)
        degree == GetOr(edu, Key.degree, EmptyDict)
    IN  AsPart(JoinTruthy(Lit.space, <<Get(degree, Key.level), Get(degree, Key.field),
                                     Get(inst, Key.name), Get(inst, Key.location)>>))

\* The parts of one job (lines 215-226)
ExperienceParts(job) ==
    LET resp == OrElse(Get(job, Key.responsibilities), PyList(<<>>))
    IN  AsPart(JoinTruthy(Lit.dash, <<Get(job, Key.title), Get(job, Key.company)>>))
        \o (IF IsList(resp) THEN resp.v ELSE IF IsStr(resp) THEN <<resp>> ELSE <<>>)

\* skills.get("technical", {}) if isinstance(skills, dict) else {}
Technical(record) ==
    LET skills == GetOr(record, Key.skills, EmptyDict)
    IN  IF IsDict(skills) THEN DictGet(skills, Key.technical, EmptyDict) ELSE EmptyDict

\* The programming languages line (lines 229-240)
SkillParts(record) ==
    LET tech == Technical(record)
        prog == GetOr(tech, Key.programming_languages, PyList(<<>>))
        named == SelectSeq(prog.v, LAMBDA sk : IsDict(sk) /\ Truthy(Get(sk, Key.name)))
        skill_names == [i \in 1..Len(named) |-> Get(named[i], Key.name).v]
    IN  IF IsDict(tech) /\ skill_names # <<>>
        THEN <<PyStr(Lit.Programming \o Join(Lit.comma, skill_names))>>
        ELSE <<>>

\* One project line (lines 243-248)
ProjectLine(proj) ==
    AsPart(JoinTruthy(Lit.dash, <<Get(proj, Key.name), Get(proj, Key.description),
                                Get(proj, Key.impact)>>))

\* Every entry of the three lists is a dict (.get on anything else raises).
EntriesAreDicts(record) ==
    /\ IsDict(GetOr(record, Key.personal_info, EmptyDict))
    /\ \A key \in {Key.education, Key.experience, Key.projects} :
          /\ IsList(GetOr(record, key, PyList(<<>>)))
          /\ \A i \in 1..Len(GetOr(record, key, PyList(<<>>)).v) :
                IsDict(GetOr(record, key, PyList(<<>>)).v[i])

\* record_to_cv_text(record)
record_to_cv_text(record) ==
    LET pi == GetOr(record, Key.personal_info, EmptyDict)
        education == GetOr(record, Key.education, PyList(<<>>)).v
        experience == GetOr(record, Key.experience, PyList(<<>>)).v
        projects == GetOr(record, Key.projects, PyList(<<>>)).v
        parts == Truthies(<<Get(pi, Key.name)>>) \o Truthies(<<Get(pi, Key.summary)>>)
                 \o Flatten([i \in 1..Len(education) |-> EducationLine(education[i])])
                 \o Flatten([i \in 1..Len(experience) |-> ExperienceParts(experience[i])])
                 \o SkillParts(record)
                 \o Flatten([i \in 1..Len(projects) |-> ProjectLine(projects[i])])
    IN  IF ~EntriesAreDicts(record) THEN [ok |-> FALSE, text |-> <<>>]
        ELSE [ok |-> TRUE, text |-> JoinTruthy(Lit.newline, parts)]

\* if value: d[key] = value
Put(key, value) == IF Truthy(value) THEN << <<key, value>> >> ELSE <<>>

\* if isinstance(bullets, str): bullets = [bullets]
BulletList(bullets) == IF IsStr(bullets) THEN PyList(<<bullets>>) ELSE bullets

\* edu_obj (lines 76-88), kept when a value is truthy
EduObj(edu) ==
    LET inst == GetOr(edu, Key.institution, EmptyDict)
        degree == GetOr(edu, Key.degree, EmptyDict)
        edu_obj ==
            << <<Key.institution, Get(inst, Key.name)>>,
               <<Key.degree, OrElse(Get(degree, Key.level),
                                  OrElse(Get(degree, Key.name), Get(degree, Key.title)))>>,
               <<Key.field, Get(degree, Key.field)>>,
               <<Key.gpa, Get(edu, Key.gpa)>>,
               <<Key.location, Get(inst, Key.location)>>,
               <<Key.start_date, Get(edu, Key.start_date)>>,
               <<Key.end_date, Get(edu, Key.end_date)>> >>
    IN  IF \E i \in 1..Len(edu_obj) : Truthy(edu_obj[i][2])
        THEN <<PyDict(edu_obj)>> ELSE <<>>

\* exp_obj (lines 95-110)
ExpObj(job) ==
    LET bullets == BulletList(OrElse(Get(job, Key.responsibilities), PyList(<<>>)))
    IN  IF Truthy(Get(job, Key.company)) \/ Truthy(Get(job, Key.title)) \/ Truthy(bullets)
        THEN <<PyDict(<< <<Key.company, Get(job, Key.company)>>,
                         <<Key.title, Get(job, Key.title)>>,
                         <<Key.location, Get(job, Key.location)>>,
                         <<Key.bullets, bullets>>,
                         <<Key.start_date, Get(job, Key.start_date)>>,
                         <<Key.end_date, Get(job, Key.end_date)>> >>)>>
        ELSE <<>>

\* proj_obj (lines 117-132)
ProjObj(proj) ==
    LET bullets == BulletList(OrElse(Get(proj, Key.responsibilities),
                                     OrElse(Get(proj, Key.bullets), PyList(<<>>))))
    IN  IF \/ Truthy(Get(proj, Key.name)) \/ Truthy(Get(proj, Key.description))
           \/ Truthy(Get(proj, Key.impact)) \/ Truthy(bullets)
        THEN <<PyDict(<< <<Key.name, Get(proj, Key.name)>>,
                         <<Key.description, Get(proj, Key.description)>>,
                         <<Key.impact, Get(proj, Key.impact)>>,
                         <<Key.technologies, DictGet(proj, Key.technologies, PyList(<<>>))>>,
                         <<Key.link, Get(proj, Key.link)>>,
                         <<Key.bullets, bullets>> >>)>>
        ELSE <<>>

\* The names of one skill category (lines 147-152)
SkillNames(cat_list) ==
    LET kept == SelectSeq(cat_list.v,
                          LAMBDA sk : (IsDict(sk) /\ Truthy(Get(sk, Key.name))) \/ IsStr(sk))
    IN  PyList([i \in 1..Len(kept) |->
                   IF IsDict(kept[i]) THEN Get(kept[i], Key.name) ELSE kept[i]])

\* skills_dict (lines 138-156)
SkillsDict(record) ==
    LET tech == Technical(record)
        cats == IF IsDict(tech) THEN tech.v ELSE <<>>
        kept == SelectSeq(cats, LAMBDA kv : IsList(kv[2]) /\ SkillNames(kv[2]).v # <<>>)
    IN  PyDict([i \in 1..Len(kept) |-> <<kept[i][1], SkillNames(kept[i][2])>>])

\* build_structured_sections_from_record(record)
build_structured_sections_from_record(record) ==
    LET pi == GetOr(record, Key.personal_info, EmptyDict)
        summary == Get(pi, Key.summary)
        contact == PyDict(Put(Key.name, Get(pi, Key.name)) \o Put(Key.email, Get(pi, Key.email))
                          \o Put(Key.phone, Get(pi, Key.phone))
                          \o Put(Key.linkedin, Get(pi, Key.linkedin))
                          \o Put(Key.github, Get(pi, Key.github)))
        education == GetOr(record, Key.education, PyList(<<>>)).v
        experience == GetOr(record, Key.experience, PyList(<<>>)).v
        projects == GetOr(record, Key.projects, PyList(<<>>)).v
        edu_list == PyList(Flatten([i \in 1..Len(education) |-> EduObj(education[i])]))
        exp_list == PyList(Flatten([i \in 1..Len(experience) |-> ExpObj(experience[i])]))
        proj_list == PyList(Flatten([i \in 1..Len(projects) |-> ProjObj(projects[i])]))
    IN  PyDict((IF Truthy(summary)
                THEN << <<Key.summary, PyDict(<< <<Key.text, summary>> >>)>> >> ELSE <<>>)
               \o Put(Key.contact, contact)
               \o Put(Key.education, edu_list)
               \o Put(Key.experience, exp_list)
               \o Put(Key.projects, proj_list)
               \o Put(Key.skills, SkillsDict(record)))

\* model.encode(texts, normalize_embeddings=True): a function of the text
Encode(text) == <<[i \in 1..Len(text) |-> ByteOf(text[i])]>>

\* embed_chunks(chunks): every chunk gets its embedding, whatever its text
embed_chunks(chunks) ==
    [i \in 1..Len(chunks) |->
        [cv_id |-> chunks[i].cv_id, section |-> chunks[i].section,
         text |-> chunks[i].text, metadata |-> chunks[i].metadata,
         embedding |-> Encode(chunks[i].text)]]

\* vector_id = f"{cv_id}_{chunk['section']}_{idx}"
vector_id(cv_id, chunk, idx) ==
    cv_id \o Lit.underscore \o chunk.section \o Lit.underscore \o Decimal(idx)

\* Mutant: a list is sent as it is.
CleanValueKeepingLists(v) ==
    CASE v.t \in {"str", "int", "list"} -> v
      [] OTHER -> PyStr(ToStr(v))

\* One metadata value as Pinecone takes it (lines 381-392)
CleanValue(v) ==
    CASE v.t \in {"str", "int"} -> v
      [] v.t = "list" ->
            PyList([i \in 1..Len(SelectSeq(v.v, LAMBDA x : ~IsNone(x))) |->
                       PyStr(ToStr(SelectSeq(v.v, LAMBDA x : ~IsNone(x))[i]))])
      [] OTHER -> PyStr(ToStr(v))

\* Mutant: the section and the text of the chunk are not added.
final_metadata_without_chunk(cv_id, chunk) ==
    LET meta == OrElse(chunk.metadata, EmptyDict).v
        kept == SelectSeq(meta, LAMBDA kv : ~IsNone(kv[2]))
        clean_metadata == [i \in 1..Len(kept) |-> <<kept[i][1], CleanValue(kept[i][2])>>]
    IN  PyDict(DictMerge(<< <<Key.cv_id, PyStr(cv_id)>> >>, clean_metadata))

\* final_metadata of a chunk (lines 371-399)
final_metadata(cv_id, chunk) ==
    LET meta == OrElse(chunk.metadata, EmptyDict).v
        raw_metadata == IF DictHas(PyDict(meta), Key.source) THEN meta
                        ELSE Append(meta, <<Key.source, PyStr(Lit.dataset)>>)
        kept == SelectSeq(raw_metadata, LAMBDA kv : ~IsNone(kv[2]))
        clean_metadata == [i \in 1..Len(kept) |-> <<kept[i][1], CleanValue(kept[i][2])>>]
    IN  PyDict(DictMerge(<< <<Key.cv_id, PyStr(cv_id)>>,
                            <<Key.section, PyStr(chunk.section)>>,
                            <<Key.raw_text, PyStr(chunk.text)>> >>, clean_metadata))

\* The vectors of the embedded chunks (lines 365-406)
Vectors(cv_id, chunks) ==
    [i \in 1..Len(chunks) |->
        [id |-> vector_id(cv_id, chunks[i], i - 1),
         values |-> chunks[i].embedding,
         metadata |-> final_metadata(cv_id, chunks[i])]]

\* Mutant: every vector is added as a new one.
upsert_appending(idx, vectors) == idx \o vectors

\* index.upsert(vectors=vectors): a vector replaces the one of its id
upsert(idx, vectors) ==
    LET Held(id) == \E j \in 1..Len(idx) : idx[j].id = id
        Sent(id) == \E i \in 1..Len(vectors) : vectors[i].id = id
        Last(id) == vectors[CHOOSE i \in 1..Len(vectors) :
                               /\ vectors[i].id = id
                               /\ \A j \in (i + 1)..Len(vectors) : vectors[j].id # id]
        added == SelectSeq([i \in 1..Len(vectors) |-> i],
                           LAMBDA i : /\ ~Held(vectors[i].id)
                                      /\ \A j \in 1..(i - 1) : vectors[j].id # vectors[i].id)
    IN  [j \in 1..Len(idx) |-> IF Sent(idx[j].id) THEN Last(idx[j].id) ELSE idx[j]]
        \o [n \in 1..Len(added) |-> Last(vectors[added[n]].id)]

\* The vectors the backend holds for cv_id.
VectorCount(idx, cv_id) ==
    Cardinality({j \in 1..Len(idx) : Get(idx[j].metadata, Key.cv_id) = PyStr(cv_id)})

\* The Mongo document of a record (lines 312-322)
DatasetDoc(record, cv_id, cv_text) ==
    [cv_id |-> cv_id,
     cv_text |-> cv_text,
     structured_sections |-> record,
     metadata |-> PyDict(<< <<Key.source, PyStr(Lit.dataset)>>,
                            <<Key.dataset_id, Get(record, Key.id)>> >>),
     created_at |-> None,
     updated_at |-> None]

\* What one turn of the loop of main() computes from the record alone
\* (lines 298-406): the text, the id, the Mongo document, whether the
\* chunkers returned, and the vectors.
PipelineOfChunks(record, cv_text, cv_id, structured_sections, results) ==
    LET early == ~cv_text.ok \/ cv_text.text = <<>> \/ ~IsStr(cv_id)
        chunked == \A i \in 1..Len(results) : results[i].ok
    IN  [cv_text |-> cv_text,
         cv_id |-> cv_id,
         doc |-> IF early THEN None ELSE DatasetDoc(record, cv_id.v, cv_text.text),
         has_sections |-> ~early /\ Truthy(structured_sections),
         chunked |-> ~early /\ chunked,
         chunks |-> IF early \/ ~chunked THEN <<>>
                    ELSE results[1].chunks \o results[2].chunks \o results[3].chunks,
         vectors |-> IF early \/ ~chunked THEN <<>>
                     ELSE Vectors(cv_id.v,
                                  embed_chunks(results[1].chunks \o results[2].chunks
                                               \o results[3].chunks))]

\* base_chunks, exp_chunks and proj_chunks (lines 344-354)
PipelineOfId(record, cv_text, cv_id, structured_sections) ==
    PipelineOfChunks(record, cv_text, cv_id, structured_sections,
                     <<chunk_structured_sections(structured_sections, cv_id.v),
                       chunk_experience_bullets(ExpList(structured_sections), cv_id.v),
                       chunk_projects_bullets(ProjList(structured_sections), cv_id.v)>>)

\* cv_id = provided_id or compute_cv_id(cv_text) (lines 303-304)
PipelineOfText(record, cv_text) ==
    PipelineOfId(record, cv_text,
                 OrElse(Get(record, Key.id), PyStr(Sha256Hex(cv_text.text))),
                 build_structured_sections_from_record(record))

record_pipeline(record) == PipelineOfText(record, record_to_cv_text(record))

MaxIngested == 1

R_Job(responsibilities) ==
    Obj(<< <<Key.personal_info, Obj(<< <<Key.name, Txt.A>>, <<Key.summary, Txt.x>> >>)>>,
           <<Key.experience,
             PyList(<<Obj(<< <<Key.company, Txt.B>>, <<Key.title, Txt.d>>,
                             <<Key.responsibilities, responsibilities>> >>)>>)>> >>)

R_Project(id, bullets) ==
    Obj(<< <<Key.id, id>>,
           <<Key.projects,
             PyList(<<Obj(<< <<Key.name, Txt.P>>, <<Key.bullets, bullets>> >>)>>)>> >>)

\* The lines of the dataset: jobs and projects with their bullets, with and
\* without an id, projects with technologies, a contact alone, skills, an
\* empty line and two lines that end the script.
IngestRecords ==
    {R_Job(r) : r \in {Txt.x, PyList(<<Txt.x, None, Txt.y>>)}}
    \cup {R_Project(Missing, b) : b \in {PyList(<<Txt.x>>), PyList(<<Txt.x, Txt.y>>)}}
    \cup {Obj(<< <<Key.projects,
                    PyList(<<Obj(<< <<Key.name, Txt.P>>, <<Key.bullets, PyList(<<Txt.x>>)>>,
                                    <<Key.technologies,
                                      PyList(<<Txt.x, PyInt(7), None>>)>> >>),
                             Obj(<< <<Key.name, Txt.P>>, <<Key.bullets, PyList(<<Txt.x>>)>>,
                                    <<Key.technologies,
                                      Obj(<< <<Key.lang, Txt.x>> >>)>> >>)>>)>> >>)}
    \cup {R_Project(PyStr(<<"b">>), PyList(<<Txt.x>>)),
          R_Project(PyInt(7), PyList(<<Txt.x>>)),
          EmptyDict,
          Obj(<< <<Key.personal_info, Txt.x>> >>),
          Obj(<< <<Key.personal_info, Obj(<< <<Key.name, Txt.A>> >>)>> >>),
          Obj(<< <<Key.skills,
                   Obj(<< <<Key.technical,
                            Obj(<< <<Key.programming_languages,
                                     PyList(<<Obj(<< <<Key.name, Txt.x>> >>), Txt.empty>>)>> >>)>> >>)>>,
                 <<Key.education,
                   PyList(<<Obj(<< <<Key.institution, Obj(<< <<Key.name, Txt.A>> >>)>>,
                                   <<Key.degree, Obj(<< <<Key.level, Txt.d>> >>)>> >>)>>)>> >>)}

\* record_pipeline on every line of the dataset.
Pipeline == [record \in IngestRecords |-> record_pipeline(record)]

\* One turn of the loop of main() (lines 296-412) on collection coll and
\* index idx, p being what the turn computes from the record. status:
\* "raised" when an exception ends the script.
ingest_outcome(p, coll, idx, pineconeUp) ==
    LET stored == IF find_cv_by_id(coll, p.cv_id.v).found THEN coll
                  ELSE Append(coll, p.doc)
        Result(status, c, x, ids) ==
            [status |-> status, cv_id |-> IF IsStr(p.cv_id) THEN p.cv_id.v ELSE <<>>,
             coll |-> c, index |-> x, ids |-> ids]
    IN  IF ~p.cv_text.ok THEN Result("raised", coll, idx, {})
        ELSE IF p.cv_text.text = <<>> THEN Result("no_cv_text", coll, idx, {})
        ELSE IF ~IsStr(p.cv_id) THEN Result("raised", coll, idx, {})      \* cv_id[:8]
        ELSE IF ~p.has_sections THEN Result("no_sections", stored, idx, {})
        ELSE IF ~p.chunked THEN Result("raised", stored, idx, {})
        ELSE IF p.vectors = <<>> THEN Result("no_chunks", stored, idx, {})
        ELSE IF ~pineconeUp THEN Result("raised", stored, idx, {})
        ELSE Result("upserted", stored, upsert(idx, p.vectors),
                    {p.vectors[i].id : i \in 1..Len(p.vectors)})

ingest_record(record, coll, idx, pineconeUp) ==
    ingest_outcome(Pipeline[record], coll, idx, pineconeUp)

\* for i, record in enumerate(iter_jsonl(DATASET_PATH), start=1): one record
IngestRecord(record, pineconeUp) ==
    \E r \in {ingest_record(record, dataset_cvs, index, pineconeUp)} :
        /\ Len(r.coll) <= MaxIngested
        /\ dataset_cvs' = r.coll
        /\ index' = r.index
        /\ ingestLast' =
               [last |-> [record |-> record, status |-> r.status, cv_id |-> r.cv_id,
                          ids |-> r.ids, count |-> VectorCount(r.index, r.cv_id)],
                before |-> ingestLast.last]
        /\ UNCHANGED <<storeVars, pubLast, inflight, consumer, cbLast, chunkVars>>

IngestNext ==
    \E record \in IngestRecords, pineconeUp \in BOOLEAN : IngestRecord(record, pineconeUp)

SpecIngest == Init /\ [][IngestNext /\ UNCHANGED moreVars]_vars

(* ============== store_cv in several worker processes at once =========== *)
\* The texts the concurrent callers submit.
RaceTexts == {<<"a">>, <<"b">>}

\* store_cv lines 17-37 in worker c: the digest, find_cv_by_id, the early
\* return when a document was found, else the document with both utcnow()
StoreCvFind(c, structured_json, cv_text, dt) ==
    LET cv_id == ComputeCvId(structured_json, cv_text)
        existing == find_cv_by_id(collection, cv_id)
        document == [cv_id |-> cv_id,
                     cv_text |-> cv_text,
                     metadata |-> DictGet(structured_json, Key.metadata, EmptyDict),
                     structured_sections |->
                         DictGet(structured_json, Key.structured_sections, EmptyDict),
                     created_at |-> clock,
                     updated_at |-> clock + dt]
    IN  /\ storeCalls[c].pc = "idle"
        /\ clock + dt <= MaxClock
        /\ storeCalls' = [storeCalls EXCEPT ![c] =
                        IF existing.found
                        THEN [CallIdle EXCEPT !.pc = "done", !.cv_text = cv_text,
                                              !.cv_id = cv_id,
                                              !.status = "already_exists"]
                        ELSE [CallIdle EXCEPT !.pc = "checked", !.cv_text = cv_text,
                                              !.cv_id = cv_id,
                                              !.document = document]]
        /\ clock' = IF existing.found THEN clock ELSE clock + dt
        /\ UNCHANGED <<collection, queue, storeLast, answers>>

\* store_cv lines 39-46 in worker c: insert_one under the unique index; a
\* DuplicateKeyError leaves store_cv and the endpoint answers 500
StoreCvInsert(c) ==
    LET ins == insert_cv_document(collection, storeCalls[c].document)
    IN  /\ storeCalls[c].pc = "checked"
        /\ Len(ins.coll) <= MaxDocs
        /\ collection' = ins.coll
        /\ storeCalls' = [storeCalls EXCEPT ![c].pc = "done",
                                  ![c].status = IF ins.ok THEN "stored" ELSE "error"]
        /\ UNCHANGED <<clock, queue, storeLast, answers>>

RaceNext ==
    \/ \E c \in Callers, sj \in StructuredJsons, text \in RaceTexts, dt \in {0, 1} :
          StoreCvFind(c, sj, text, dt)
    \/ \E c \in Callers : StoreCvInsert(c)

SpecRace ==
    Init /\ [][RaceNext /\ UNCHANGED <<pubLast, consumeVars, chunkVars, ingestVars,
                                       redelivery, chunkPrev, model, embedLast,
                                       attachLast, script>>]_vars

(* ==================== the latest CV of the store ======================= *)
\* collection.find_one(sort=[("created_at", DESCENDING)]): a document with
\* the greatest created_at (the server picks among equal ones), None when the
\* collection is empty. The set of the values it may return.
find_latest_cv(coll) ==
    IF coll = <<>> THEN {None}
    ELSE {coll[i] : i \in {j \in 1..Len(coll) :
                              \A k \in 1..Len(coll) : coll[k].created_at <= coll[j].created_at}}

\* The routes of the storing service (api.py:16, api.py:34, main.py:26): the
\* handler of a request, "none" when no route matches and FastAPI answers 404.
storing_route(method, path) ==
    IF method = "POST" /\ path = <<"internal", "store_cv">> THEN "store_cv_endpoint"
    ELSE IF method = "GET" /\ Len(path) = 3 /\ path[1] = "internal" /\ path[2] = "get_cv"
    THEN "get_cv_endpoint"
    ELSE IF method = "GET" /\ path = <<"health">> THEN "health_check"
    ELSE "none"

\* storing_client.get_latest_cv(user_id): GET /internal/get_latest_cv, with
\* ?user_id=... when a user is given; _get raises StoringClientError when the
\* service cannot be reached or answers 400 or more.
get_latest_cv(coll, user_id, storeUp) ==
    LET handler == storing_route("GET", <<"internal", "get_latest_cv">>)
    IN  IF ~storeUp THEN [raised |-> TRUE, code |-> 0, docs |-> {None}]
        ELSE IF handler = "none" THEN [raised |-> TRUE, code |-> 404, docs |-> {None}]
        ELSE [raised |-> FALSE, code |-> 200, docs |-> find_latest_cv(coll)]

\* The gateway asks for the latest CV (routes.py: my_cv).
GetLatestCv(user_id, storeUp) ==
    \E r \in {get_latest_cv(collection, user_id, storeUp)} : \E doc \in r.docs :
        /\ storeLast' = [StoreIdle EXCEPT !.op = "get_latest_cv", !.code = r.code,
                                          !.status = IF r.raised THEN "error" ELSE "ok",
                                          !.doc = doc]
        /\ UNCHANGED <<collection, clock, queue, answers>>

\* find_latest_cv() called on the collection directly; no caller exists.
FindLatestCv ==
    \E doc \in find_latest_cv(collection) :
        /\ storeLast' = [StoreIdle EXCEPT !.op = "find_latest_cv", !.code = 200,
                                          !.doc = doc]
        /\ UNCHANGED <<collection, clock, queue, answers>>

LatestNext ==
    \/ StoreNext
    \/ \E user_id \in {None, PyStr(<<"a">>)}, storeUp \in BOOLEAN :
          GetLatestCv(user_id, storeUp) /\ UNCHANGED pubLast
    \/ FindLatestCv /\ UNCHANGED pubLast

SpecLatest ==
    Init /\ [][LatestNext /\ UNCHANGED <<consumeVars, chunkVars, ingestVars, moreVars>>]_vars

(* ==================== the embedder of one process ====================== *)
\* Mutant: the model is loaded on every call.
get_model_reloading(mdl, loadOk) ==
    IF loadOk
    THEN [ok |-> TRUE, model |-> [instance |-> mdl.loads + 1, loads |-> mdl.loads + 1]]
    ELSE [ok |-> FALSE, model |-> mdl]

\* get_model(): _model is loaded when it is None and returned; a failed load
\* is printed and raised again, and leaves _model None. instance tells the
\* SentenceTransformer objects apart: the n-th loaded one is n.
get_model(mdl, loadOk) ==
    IF mdl.instance # 0 THEN [ok |-> TRUE, model |-> mdl]
    ELSE IF loadOk
    THEN [ok |-> TRUE, model |-> [instance |-> mdl.loads + 1, loads |-> mdl.loads + 1]]
    ELSE [ok |-> FALSE, model |-> mdl]

EmbedOutcome(op, texts, mdl, g, raised, error, out) ==
    [op |-> op, texts |-> texts, cached |-> mdl.instance # 0, raised |-> raised,
     error |-> error, out |-> out, instance |-> IF raised THEN 0 ELSE g.model.instance]

\* embed_text(text): ValueError("Text cannot be empty") for a blank text,
\* else get_model() and model.encode([text])[0]
EmbedText(text, loadOk) ==
    \E g \in {get_model(model, loadOk)} :
        IF text = <<>> \/ Strip(text) = <<>>
        THEN /\ embedLast' = EmbedOutcome("embed_text", <<text>>, model, g, TRUE,
                                          "empty", <<>>)
             /\ UNCHANGED model
        ELSE /\ embedLast' = EmbedOutcome("embed_text", <<text>>, model, g, ~g.ok,
                                          IF g.ok THEN "" ELSE "load",
                                          IF g.ok THEN Encode(text) ELSE <<>>)
             /\ model' = g.model

\* embed_chunks(chunks): [] for no chunks, else get_model(), one batch
\* model.encode(texts) and chunk["embedding"] set on every chunk
EmbedChunks(chunks, loadOk) ==
    \E g \in {get_model(model, loadOk)} :
        IF chunks = <<>>
        THEN /\ embedLast' = [EmbedIdle EXCEPT !.op = "embed_chunks",
                                               !.cached = model.instance # 0]
             /\ UNCHANGED model
        ELSE /\ embedLast' = EmbedOutcome("embed_chunks",
                                          [i \in 1..Len(chunks) |-> chunks[i].text],
                                          model, g, ~g.ok,
                                          IF g.ok THEN "" ELSE "load",
                                          IF g.ok
                                          THEN [i \in 1..Len(chunks) |->
                                                   embed_chunks(chunks)[i].embedding]
                                          ELSE <<>>)
             /\ model' = g.model

\* The texts handed to embed_text, and the batches handed to embed_chunks:
\* what the chunkers return on the inputs of BaseFamily and ExpFamily.
EmbedTexts == {Txt.empty.v, Txt.blank.v, Txt.x.v, Txt.y.v}
EmbedBatches ==
    {chunk_structured_sections(ss, ChunkCvId).chunks : ss \in BaseFamily}
    \cup {chunk_experience_bullets(ExpList(ss), ChunkCvId).chunks : ss \in ExpFamily}

EmbedNext ==
    \/ \E text \in EmbedTexts, loadOk \in BOOLEAN : EmbedText(text, loadOk)
    \/ \E chunks \in EmbedBatches, loadOk \in BOOLEAN : EmbedChunks(chunks, loadOk)

SpecEmbed ==
    Init /\ [][EmbedNext /\ UNCHANGED <<storeVars, pubLast, consumeVars, chunkVars,
                                        ingestVars, storeCalls, redelivery,
                                        chunkPrev, attachLast, script>>]_vars

(* ================ one run of the ingest script ========================= *)
\* The records main() takes in one run.
MaxTaken == 2

\* Mutant: a failed model load is caught in the turn and the loop goes on
\* with the next record.
run_turn_skipping(p, coll, idx, mdl, pineconeUp, loadOk) ==
    LET embeds == ingest_outcome(p, coll, idx, TRUE).status = "upserted"
        g == get_model(mdl, loadOk)
    IN  IF embeds /\ ~g.ok
        THEN [out |-> [ingest_outcome(p, coll, idx, FALSE) EXCEPT !.status = "no_chunks"],
              model |-> mdl, load |-> "failed"]
        ELSE [out |-> ingest_outcome(p, coll, idx, pineconeUp),
              model |-> IF embeds THEN g.model ELSE mdl,
              load |-> IF ~embeds THEN "none"
                       ELSE IF mdl.instance # 0 THEN "cached" ELSE "loaded"]

\* One turn of the loop of main() with the embedder's model: the turn
\* reaches vs_embedder.embed_chunks(all_chunks) (line 363) with chunks when
\* nothing before it skipped the record or raised; embed_chunks calls
\* get_model(), whose exception no handler of the script catches: the turn
\* ends there, after the Mongo insert and before the upsert.
run_turn(p, coll, idx, mdl, pineconeUp, loadOk) ==
    LET embeds == ingest_outcome(p, coll, idx, TRUE).status = "upserted"
        g == get_model(mdl, loadOk)
    IN  IF embeds /\ ~g.ok
        THEN [out |-> ingest_outcome(p, coll, idx, FALSE), model |-> mdl, load |-> "failed"]
        ELSE [out |-> ingest_outcome(p, coll, idx, pineconeUp),
              model |-> IF embeds THEN g.model ELSE mdl,
              load |-> IF ~embeds THEN "none"
                       ELSE IF mdl.instance # 0 THEN "cached" ELSE "loaded"]

\* main() takes the next record of the dataset; an exception ends the script.
RunRecord(record, pineconeUp, loadOk) ==
    /\ script.pc = "running"
    /\ script.taken < MaxTaken
    /\ \E t \in {run_turn(Pipeline[record], dataset_cvs, index, model, pineconeUp, loadOk)} :
          /\ Len(t.out.coll) <= MaxIngested
          /\ dataset_cvs' = t.out.coll
          /\ index' = t.out.index
          /\ model' = t.model
          /\ script' = [pc |-> IF t.out.status = "raised" THEN "failed" ELSE "running",
                        taken |-> script.taken + 1, load |-> t.load,
                        status |-> t.out.status]
    /\ UNCHANGED <<storeVars, pubLast, inflight, consumer, cbLast, chunkVars, ingestLast,
                   storeCalls, redelivery, chunkPrev, embedLast, attachLast>>

\* The dataset is exhausted: "Done ingesting dataset."
RunEnd ==
    /\ script.pc = "running"
    /\ script' = [script EXCEPT !.pc = "done"]
    /\ UNCHANGED <<storeVars, pubLast, consumeVars, chunkVars, ingestVars,
                   storeCalls, redelivery, chunkPrev, model, embedLast, attachLast>>

ScriptNext ==
    \/ \E record \in IngestRecords, pineconeUp \in BOOLEAN, loadOk \in BOOLEAN :
          RunRecord(record, pineconeUp, loadOk)
    \/ RunEnd

SpecScript == Init /\ [][ScriptNext]_vars

(* ================== the chunkers invoked a second time ================= *)
Chunkers == {"base", "exp", "proj"}

\* The call the ingest loop and the vector service make of chunker `name`.
RunChunker(name, structured_sections, cv_id) ==
    CASE name = "base" -> Ran(chunk_structured_sections(structured_sections, cv_id))
      [] name = "exp" ->
            Ran(chunk_experience_bullets(ExpList(structured_sections), cv_id))
      [] name = "proj" ->
            Ran(chunk_projects_bullets(ProjList(structured_sections), cv_id))

\* Mutant: the chunks are collected in a list that outlives the call.
RechunkAccumulating(name) ==
    /\ chunkOut[name].ran
    /\ ~chunkPrev[name].ran
    /\ chunkPrev' = [chunkPrev EXCEPT ![name] = chunkOut[name]]
    /\ chunkOut' = [chunkOut EXCEPT ![name] =
                       [RunChunker(name, chunkIn, ChunkCvId) EXCEPT
                           !.chunks = chunkOut[name].chunks \o @]]
    /\ UNCHANGED chunkIn

\* The chunker is called again on the same structured_sections and cv_id; the
\* functions keep no module state and do not write to their arguments.
Rechunk(name) ==
    /\ chunkOut[name].ran
    /\ ~chunkPrev[name].ran
    /\ chunkPrev' = [chunkPrev EXCEPT ![name] = chunkOut[name]]
    /\ chunkOut' = [chunkOut EXCEPT ![name] = RunChunker(name, chunkIn, ChunkCvId)]
    /\ UNCHANGED chunkIn

RechunkNext ==
    \/ ChunkNext /\ UNCHANGED chunkPrev
    \/ \E name \in Chunkers : Rechunk(name)

SpecRechunk ==
    ChunkInit /\ [][RechunkNext /\ UNCHANGED <<storeVars, pubLast, consumeVars, ingestVars,
                                               storeCalls, redelivery, model, embedLast,
                                               attachLast, script>>]_vars

(* ============ one event followed through its deliveries ================ *)
MaxDeliveries == 3

\* The event whose enqueues, deliveries and callback runs are recorded, and
\* an event of a record whose sections are null beside it.
TrackedBody == Event(PyStr(Sha256Hex(<<"a">>)))
RedeliverBodies == {TrackedBody, Event(PyStr(Sha256Hex(<<" ">>)))}

\* The consumer of SpecConsume, with the history of TrackedBody kept.
RedeliverNext ==
    \/ \E brokerUp \in BOOLEAN : StartConsumer(brokerUp) /\ UNCHANGED redelivery
    \/ \E body \in RedeliverBodies :
          /\ body = TrackedBody => redelivery.enqueued < MaxQueue
          /\ BrokerEnqueue(body)
          /\ redelivery' = IF body = TrackedBody
                           THEN [redelivery EXCEPT !.enqueued = @ + 1]
                           ELSE redelivery
    \/ /\ BrokerDeliver
       /\ Head(queue).body = TrackedBody => redelivery.delivered < MaxDeliveries
       /\ redelivery' = IF Head(queue).body = TrackedBody
                        THEN [redelivery EXCEPT !.delivered = @ + 1]
                        ELSE redelivery
    \/ \E storeUp \in BOOLEAN, mongoUp \in BOOLEAN, chanOk \in BOOLEAN :
          /\ Callback(storeUp, mongoUp, chanOk)
          /\ redelivery' = IF Head(inflight).body = TrackedBody
                           THEN [redelivery EXCEPT !.log = Append(@,
                                    [processed |-> cbLast'.processed,
                                     processRaised |-> cbLast'.processRaised,
                                     settle |-> cbLast'.settle])]
                           ELSE redelivery
    \/ ConnectionDrop /\ UNCHANGED redelivery

SpecRedeliver ==
    ConsumeInit /\ [][RedeliverNext /\ UNCHANGED <<chunkVars, ingestVars, storeCalls,
                                                   chunkPrev, model, embedLast,
                                                   attachLast, script>>]_vars

(* ===================== the gateway's attach_cv ========================= *)
\* storing_client.store_cv(structured_cv, cv_text, user_id): the JSON body
\* that _post sends to /internal/store_cv
storing_client_store_cv(structured_cv, cv_text, user_id) ==
    PyDict(<< <<Key.user_id, user_id>>, <<Key.structured_cv, structured_cv>>,
              <<Key.cv_text, cv_text>> >>)

\* What gemini_client.structure_cv may return: the structured CV under the
\* key structured_cv, or the structured CV itself.
GeminiResults ==
    [wrapped |-> PyDict(<< <<Key.structured_cv, SJ_Acme>> >>), bare |-> SJ_Acme]

\* The cv_text form fields of the requests.
AttachTexts ==
    {None, PyStr(<<" ">>), PyStr(<<"a">>), PyStr(<<" ", "a", " ">>), PyStr(<<"b">>)}

\* The response of attach_cv to what the storing service answered.
attach_response(code, cv_id) ==
    IF code >= 400 THEN [code |-> 502, cv_id |-> None]         \* StoringClientError
    ELSE IF cv_id = <<>> THEN [code |-> 500, cv_id |-> None]
    ELSE [code |-> 200, cv_id |-> PyStr(cv_id)]

\* POST /attach_cv with the form field cv_text and no file: 400 for a blank
\* text, 502 when GeminiService or StoringService fails, 500 when the stored
\* answer has no cv_id, else AttachCvResponse with the cv_id. The storing
\* service handles the request the gateway sends within the same step.
AttachCv(cv_text, gemini, storeUp, dt, mongoUp) ==
    \E resolved_text \in {IF IsStr(cv_text) THEN Strip(cv_text.v) ELSE <<>>} :
    \E payload \in {IF gemini = "raise" THEN None
                    ELSE storing_client_store_cv(
                             DictGet(GeminiResults[gemini], Key.structured_cv,
                                     GeminiResults[gemini]),
                             PyStr(resolved_text), PyStr(Lit.demo_user))} :
        IF resolved_text = <<>> \/ gemini = "raise" \/ ~storeUp
        THEN /\ attachLast' =
                    [ran |-> TRUE, cv_text |-> cv_text, gemini |-> gemini,
                     storeUp |-> storeUp, mongoUp |-> mongoUp,
                     sent |-> IF resolved_text = <<>> THEN None ELSE payload,
                     code |-> IF resolved_text = <<>> THEN 400 ELSE 502,
                     cv_id |-> None]
             /\ UNCHANGED storeVars
        ELSE /\ StoreCvEndpoint(payload, dt, mongoUp)
             /\ attachLast' =
                    [ran |-> TRUE, cv_text |-> cv_text, gemini |-> gemini,
                     storeUp |-> storeUp, mongoUp |-> mongoUp, sent |-> payload,
                     code |-> attach_response(storeLast'.code, storeLast'.cv_id).code,
                     cv_id |-> attach_response(storeLast'.code, storeLast'.cv_id).cv_id]

\* The requests of the gateway's clients, one after the other.
AttachNext ==
    \E cv_text \in AttachTexts, gemini \in {"raise", "wrapped", "bare"},
       storeUp \in BOOLEAN, dt \in {0, 1}, mongoUp \in BOOLEAN :
       AttachCv(cv_text, gemini, storeUp, dt, mongoUp) /\ UNCHANGED pubLast

SpecAttach ==
    Init /\ [][AttachNext /\ UNCHANGED <<consumeVars, chunkVars, ingestVars, storeCalls,
                                         redelivery, chunkPrev, model, embedLast,
                                         script>>]_vars

(* ================= the consumer under fair scheduling ================== *)
\* The thread started by startup_event runs start_consumer, the broker hands
\* over the head of the queue whenever the consumer may take it, and pika
\* runs callback on every delivery: each of the three happens when it stays
\* possible. Publishing and the loss of the connection are under no such
\* obligation.
FairConsume ==
    /\ ConsumeInit
    /\ [][ConsumeNext /\ UNCHANGED <<chunkVars, ingestVars, moreVars>>]_vars
    /\ WF_vars((\E brokerUp \in BOOLEAN : StartConsumer(brokerUp))
               /\ UNCHANGED <<chunkVars, ingestVars, moreVars>>)
    /\ WF_vars(BrokerDeliver /\ UNCHANGED <<chunkVars, ingestVars, moreVars>>)
    /\ WF_vars((\E storeUp \in BOOLEAN, mongoUp \in BOOLEAN, chanOk \in BOOLEAN :
                   Callback(storeUp, mongoUp, chanOk))
               /\ UNCHANGED <<chunkVars, ingestVars, moreVars>>)

\* The event of a record that the storing service does not hold: every
\* process_cv_for_embedding call for it raises.
UnknownRecord == Event(PyStr(Sha256Hex(<<"b">>)))

(* ====================== properties of the storing service ================== *)
StoredDocs(cv_id) == {i \in 1..Len(collection) : collection[i].cv_id = cv_id}

\* C1: a store_cv call whose cv_text an earlier call already took returns that
\* call's cv_id, whatever structured_json it carries, reports already_exists
\* and leaves the stored documents as they were.
C1_IdempotentStore ==
    [][(storeLast'.op = "store_cv" /\ storeLast'.code = 200) =>
          \A a \in answers :
              a[1] = storeLast'.cv_text.v =>
                  /\ storeLast'.cv_id = a[2]
                  /\ storeLast'.status = "already_exists"
                  /\ collection' = collection]_vars

\* Reached: an already_exists answer to a call whose structured content
\* differs from the content stored under that cv_id.
C1_Witness ==
    /\ storeLast.op = "store_cv"
    /\ storeLast.status = "already_exists"
    /\ \E i \in StoredDocs(storeLast.cv_id) :
          /\ collection[i].cv_text = storeLast.cv_text.v
          /\ collection[i].structured_sections #
                 DictGet(storeLast.structured_json, Key.structured_sections, EmptyDict)

\* C2: a store_cv call that returns 'stored' has published exactly one event
\* carrying the new cv_id, which is then in the queue.
C2_StoredPublishesOnce ==
    (storeLast.op = "store_cv" /\ storeLast.status = "stored") =>
        LET event == JsonDumps(PyDict(<< <<Key.cv_id, PyStr(storeLast.cv_id)>> >>))
        IN  /\ storeLast.published = <<event>>
            /\ \E i \in 1..Len(queue) : queue[i].body = event

\* C10: a store_cv call whose cv_text is empty or all whitespace ends in a
\* validation error and no document holds that text.
C10_BlankTextRejected ==
    (storeLast.op = "store_cv" /\ IsStr(storeLast.cv_text)
        /\ Strip(storeLast.cv_text.v) = <<>>) =>
        /\ storeLast.code \in {400, 422}
        /\ \A i \in 1..Len(collection) : collection[i].cv_text # storeLast.cv_text.v

\* C9: publish_cv_event never raises; a failure is logged and publishes
\* nothing, an opened connection is closed at return, and the call leaves the
\* store alone: a document answered 'stored' stays persisted.
C9_PublishNeverRaises ==
    [][/\ pubLast'.called =>
             /\ ~pubLast'.raised
             /\ pubLast'.fault # "none" => (pubLast'.logged /\ pubLast'.sent = <<>>)
             /\ pubLast'.conn # "open"
             /\ pubLast'.fault # "connect" => pubLast'.conn = "closed"
       /\ pubLast' # pubLast => (collection' = collection /\ storeLast' = storeLast)
       /\ storeLast'.status = "stored" =>
             \E i \in 1..Len(collection') : collection'[i].cv_id = storeLast'.cv_id]_vars

\* Reached: a publish that failed at basic_publish, with the connection still
\* up, after a document was stored.
C9_Witness ==
    /\ pubLast.called /\ pubLast.fault = "publish" /\ pubLast.closeCalled
    /\ storeLast.status = "stored"
    /\ StoredDocs(storeLast.cv_id) # {}

(* ========================= properties of the consumer ====================== *)
\* The message carries no record id: no JSON object, or no truthy cv_id in it.
NoRecordId(body) ==
    LET data == JsonLoads(body)
    IN  \/ ~data.ok
        \/ ~IsDict(data.val)
        \/ ~Truthy(DictGet(data.val, Key.cv_id, None))

\* C3: callback acknowledges a delivery only when process_cv_for_embedding
\* returned for it; when that call raises, the one settlement issued is
\* basic_nack(requeue=True) and the message is back at the head of the queue.
C3_AckOnlyAfterProcessing ==
    [][\A storeUp \in BOOLEAN, mongoUp \in BOOLEAN, chanOk \in BOOLEAN :
          Callback(storeUp, mongoUp, chanOk) =>
              /\ "ack" \in {cbLast'.calls[i] : i \in 1..Len(cbLast'.calls)} =>
                     (cbLast'.processed /\ ~cbLast'.processRaised)
              /\ cbLast'.processRaised =>
                     /\ cbLast'.calls = <<"nack_requeue">>
                     /\ queue' # <<>>
                     /\ Head(queue') = Head(inflight)]_vars

\* Reached: processing raised, the delivery was nacked with requeue and the
\* message is at the head of the queue again.
C3_Witness ==
    /\ cbLast.ran /\ cbLast.processRaised
    /\ cbLast.settle = "nack_requeue"
    /\ queue # <<>> /\ Head(queue).body = cbLast.body

\* C4: a delivery that carries no record id is rejected with
\* basic_nack(requeue=False) and does not go back to the queue.
C4_MalformedDropped ==
    (cbLast.ran /\ NoRecordId(cbLast.body)) =>
        /\ cbLast.calls[1] = "nack_drop"
        /\ cbLast.settle # "nack_requeue"

\* The chunks the three chunkers give for a stored document.
DocChunks(doc) ==
    IF ~IsDict(doc.structured_sections) THEN <<>>
    ELSE chunk_structured_sections(doc.structured_sections, doc.cv_id).chunks
         \o chunk_experience_bullets(ExpList(doc.structured_sections), doc.cv_id).chunks
         \o chunk_projects_bullets(ProjList(doc.structured_sections), doc.cv_id).chunks

\* C5: once callback has acknowledged the event of a stored record that has
\* at least one chunk, the vector backend holds vectors of that record.
C5_AckMeansIndexed ==
    (cbLast.ran /\ cbLast.settle = "ack") =>
        LET cv_id == DictGet(JsonLoads(cbLast.body).val, Key.cv_id, None).v
        IN  \A i \in 1..Len(collection) :
                (collection[i].cv_id = cv_id /\ DocChunks(collection[i]) # <<>>) =>
                    VectorCount(index, cv_id) > 0

(* ========================= properties of the chunkers ====================== *)
ChunkResults == {chunkOut.base, chunkOut.exp, chunkOut.proj}

\* C7: no chunker returns a chunk whose text is empty after trimming.
C7_NoBlankChunk ==
    \A r \in ChunkResults :
        \A i \in 1..Len(r.chunks) : Strip(r.chunks[i].text) # <<>>

\* The entries are dicts whose bullets are a non-empty list of non-blank strings.
CarryNonBlankBullets(entries) ==
    /\ IsList(entries)
    /\ \A e \in 1..Len(entries.v) :
          /\ IsDict(entries.v[e])
          /\ DictHas(entries.v[e], Key.bullets)
          /\ IsList(DictGet(entries.v[e], Key.bullets, None))
          /\ DictGet(entries.v[e], Key.bullets, None).v # <<>>
          /\ \A b \in 1..Len(DictGet(entries.v[e], Key.bullets, None).v) :
                LET bullet == DictGet(entries.v[e], Key.bullets, None).v[b]
                IN  IsStr(bullet) /\ Strip(bullet.v) # <<>>

BulletsOf(entry) == DictGet(entry, Key.bullets, PyList(<<>>)).v

\* The number of bullets of the entries before entry e.
RECURSIVE BulletsBefore(_, _)
BulletsBefore(entries, e) ==
    IF e <= 1 THEN 0
    ELSE BulletsBefore(entries, e - 1) + Len(BulletsOf(entries.v[e - 1]))

\* One chunk per bullet, entry by entry and bullet by bullet, each with the
\* text "<label> - <trimmed bullet>".
OneChunkPerBullet(entries, labelKey, out) ==
    /\ out.ok
    /\ Len(out.chunks) = BulletsBefore(entries, Len(entries.v) + 1)
    /\ \A e \in 1..Len(entries.v) :
          \A b \in 1..Len(BulletsOf(entries.v[e])) :
              out.chunks[BulletsBefore(entries, e) + b].text =
                  ToStr(DictGet(entries.v[e], labelKey, PyStr(<<>>)))
                      \o <<" ", "-", " ">> \o Strip(BulletsOf(entries.v[e])[b].v)

\* C8: for entries that carry non-blank bullets the bullet chunkers return
\* one chunk per bullet, in entry order then bullet order, each text being
\* the company (experience) or the project name (projects), " - " and the
\* trimmed bullet; so 3 experience bullets and 2 project bullets give 5.
C8_OneChunkPerBullet ==
    /\ (chunkOut.exp.ran /\ CarryNonBlankBullets(ExpList(chunkIn))) =>
           OneChunkPerBullet(ExpList(chunkIn), Key.company, chunkOut.exp)
    /\ (chunkOut.proj.ran /\ CarryNonBlankBullets(ProjList(chunkIn))) =>
           OneChunkPerBullet(ProjList(chunkIn), Key.name, chunkOut.proj)

\* Reached: an experience entry with 3 bullets and a project with 2, chunked
\* into 5 bullet chunks.
C8_Witness ==
    /\ chunkOut.exp.ran /\ chunkOut.proj.ran
    /\ CarryNonBlankBullets(ExpList(chunkIn))
    /\ CarryNonBlankBullets(ProjList(chunkIn))
    /\ Len(ExpList(chunkIn).v) = 1 /\ Len(BulletsOf(ExpList(chunkIn).v[1])) = 3
    /\ Len(ProjList(chunkIn).v) = 1 /\ Len(BulletsOf(ProjList(chunkIn).v[1])) = 2
    /\ Len(chunkOut.exp.chunks) + Len(chunkOut.proj.chunks) = 5

\* The entries of a list whose bullets are an empty list.
EmptyBulletEntries(entries) ==
    {e \in 1..Len(entries.v) :
        /\ IsDict(entries.v[e])
        /\ DictGet(entries.v[e], Key.bullets, None) = PyList(<<>>)}

\* The chunks of a result that carry the entry index idx under indexKey.
ChunksOfEntry(out, indexKey, idx) ==
    SelectSeq(out.chunks, LAMBDA c : DictGet(c.metadata, indexKey, None) = PyInt(idx))

\* s ends with t
EndsWith(s, t) ==
    /\ Len(t) <= Len(s)
    /\ SubSeq(s, Len(s) - Len(t) + 1, Len(s)) = t

\* For each entry with an empty bullets list: one chunk ending with the
\* trimmed description when the description is a non-blank string, none
\* otherwise.
DescriptionFallback(entries, indexKey, out) ==
    out.ok =>
       \A e \in EmptyBulletEntries(entries) :
          LET description == DictGet(entries.v[e], Key.description, None)
              own == ChunksOfEntry(out, indexKey, e - 1)
          IN  IF IsStr(description) /\ Strip(description.v) # <<>>
              THEN /\ Len(own) = 1
                   /\ EndsWith(own[1].text, Strip(description.v))
              ELSE own = <<>>

\* C22: for an experience entry and for a project alike, an empty bullets
\* list makes the bullet chunker emit exactly one chunk built from the
\* entry's description when that is non-blank, and no chunk for the entry
\* otherwise.
C22_EmptyBulletsFallBackToDescription ==
    /\ (chunkOut.exp.ran /\ IsList(ExpList(chunkIn))) =>
           DescriptionFallback(ExpList(chunkIn), Key.exp_index, chunkOut.exp)
    /\ (chunkOut.proj.ran /\ IsList(ProjList(chunkIn))) =>
           DescriptionFallback(ProjList(chunkIn), Key.proj_index, chunkOut.proj)

\* The half of C22 that chunk_projects_bullets implements.
ProjectsFallBackToDescription ==
    (chunkOut.proj.ran /\ IsList(ProjList(chunkIn))) =>
        DescriptionFallback(ProjList(chunkIn), Key.proj_index, chunkOut.proj)

\* The names of the sections that chunk_structured_sections treats on their own.
NamedSections == {Key.summary, Key.contact, Key.experience, Key.projects, Key.skills}

\* s occurs in t
RECURSIVE OccursFrom(_, _, _)
OccursFrom(s, t, i) ==
    IF i + Len(s) - 1 > Len(t) THEN FALSE
    ELSE SubSeq(t, i, i + Len(s) - 1) = s \/ OccursFrom(s, t, i + 1)

\* The non-blank strings of a list of strings.
NonBlank(items) == SelectSeq(items, LAMBDA x : Strip(x.v) # <<>>)

\* The sections of the input, outside the named ones, whose value is a list
\* of strings of which one at least is not blank.
StringListSections(structured_sections) ==
    {i \in 1..Len(structured_sections.v) :
        LET section_data == structured_sections.v[i][2]
        IN  /\ structured_sections.v[i][1] \notin NamedSections
            /\ IsList(section_data)
            /\ \A k \in 1..Len(section_data.v) : IsStr(section_data.v[k])
            /\ NonBlank(section_data.v) # <<>>}

\* C23: a section other than summary, contact, experience, projects and
\* skills whose value is a list of strings yields exactly one chunk for the
\* whole section, and the text of that chunk holds every non-blank string of
\* the list.
C23_StringListIsOneChunk ==
    chunkOut.base.ran =>
        \A i \in StringListSections(chunkIn) :
            LET own == SelectSeq(chunkOut.base.chunks,
                                 LAMBDA c : c.section = chunkIn.v[i][1])
                strings == NonBlank(chunkIn.v[i][2].v)
            IN  /\ chunkOut.base.ok
                /\ Len(own) = 1
                /\ \A k \in 1..Len(strings) :
                      OccursFrom(Strip(strings[k].v), own[1].text, 1)

\* The input has a skills section that maps each category to a list of strings.
SkillsMapping(structured_sections) ==
    /\ DictHas(structured_sections, Key.skills)
    /\ IsDict(DictGet(structured_sections, Key.skills, None))
    /\ \A i \in 1..Len(DictGet(structured_sections, Key.skills, None).v) :
          LET items == DictGet(structured_sections, Key.skills, None).v[i][2]
          IN  IsList(items) /\ \A k \in 1..Len(items.v) : IsStr(items.v[k])

\* The categories of a skills mapping whose list is not empty, in order.
Contributing(skills) ==
    LET kept == SelectSeq(skills.v, LAMBDA kv : kv[2].v # <<>>)
    IN  [i \in 1..Len(kept) |-> PyStr(kept[i][1])]

\* The items of all the categories of a skills mapping, in category order.
AllSkills(skills) ==
    Flatten([i \in 1..Len(skills.v) |-> StrsOf(skills.v[i][2].v)])

\* C24: for a skills mapping of category to list of strings,
\* chunk_structured_sections emits one skills chunk at most; its text is the
\* items of all categories in category order joined by ", ", and its
\* metadata 'categories' lists exactly the categories that contributed an
\* item to the text.
C24_SkillsChunkCategories ==
    (chunkOut.base.ran /\ SkillsMapping(chunkIn)) =>
        LET skills == DictGet(chunkIn, Key.skills, None)
            own == SelectSeq(chunkOut.base.chunks, LAMBDA c : c.section = Key.skills)
        IN  /\ Len(own) <= 1
            /\ (own = <<>>) <=> (AllSkills(skills) = <<>>)
            /\ \A i \in 1..Len(own) :
                  /\ own[i].text = Join(Lit.comma, AllSkills(skills))
                  /\ DictGet(own[i].metadata, Key.categories, None) =
                         PyList(Contributing(skills))

\* The half of C24 that the code implements: one chunk at most, whose text
\* is the comma-joined items.
SkillsChunkText ==
    (chunkOut.base.ran /\ SkillsMapping(chunkIn)) =>
        LET skills == DictGet(chunkIn, Key.skills, None)
            own == SelectSeq(chunkOut.base.chunks, LAMBDA c : c.section = Key.skills)
        IN  /\ Len(own) <= 1
            /\ (own = <<>>) <=> (AllSkills(skills) = <<>>)
            /\ \A i \in 1..Len(own) : own[i].text = Join(Lit.comma, AllSkills(skills))

\* C25: the three chunkers return a chunk list, without raising, for every
\* input of the families, in which keys are missing and field values None,
\* blank or present.
C25_ChunkersNeverRaise ==
    \A r \in ChunkResults : r.ran => r.ok

(* ========================= properties of the ingest ========================= *)
\* C6: when the loop takes the same record twice in a row and both turns
\* reach the upsert, the second turn writes the same set of vector ids
\* "<cv_id>_<section>_<idx>" as the first and leaves the backend with as many
\* vectors of that cv_id as the first did.
C6_ReindexIdempotent ==
    (/\ ingestLast.last.status = "upserted"
     /\ ingestLast.before.status = "upserted"
     /\ ingestLast.before.record = ingestLast.last.record) =>
        /\ ingestLast.last.ids = ingestLast.before.ids
        /\ ingestLast.last.count = ingestLast.before.count
        /\ \A id \in ingestLast.last.ids :
              \E j \in 1..Len(index) :
                  /\ index[j].id = id
                  /\ \E idx \in 0..(Cardinality(ingestLast.last.ids) - 1) :
                         id = ingestLast.last.cv_id \o <<"_">>
                                  \o Get(index[j].metadata, Key.section).v
                                  \o <<"_">> \o Decimal(idx)

\* Reached: a record of several chunks went through the upsert twice in a row.
C6_Witness ==
    /\ ingestLast.last.status = "upserted"
    /\ ingestLast.before.status = "upserted"
    /\ ingestLast.before.record = ingestLast.last.record
    /\ Cardinality(ingestLast.last.ids) >= 2
    /\ ingestLast.last.count = Cardinality(ingestLast.last.ids)

\* The ids of the vectors the backend holds for cv_id.
HeldIds(idx, cv_id) ==
    {idx[j].id : j \in {k \in 1..Len(idx) : Get(idx[k].metadata, Key.cv_id) = PyStr(cv_id)}}

\* C28: after a turn of the loop has upserted the vectors of a record, the
\* vectors the backend holds under the record's cv_id are exactly the vectors
\* of that turn: none written by an earlier turn for the same cv_id survives
\* under an id the latest turn did not write.
C28_OnlyLatestVectorsHeld ==
    ingestLast.last.status = "upserted" =>
        HeldIds(index, ingestLast.last.cv_id) = ingestLast.last.ids

\* What upsert does ensure: every vector of the latest turn is held.
LatestVectorsHeld ==
    ingestLast.last.status = "upserted" =>
        ingestLast.last.ids \subseteq HeldIds(index, ingestLast.last.cv_id)

(* ------------- properties of concurrent store_cv calls ---------------------- *)
\* The calls of the text that have returned.
Returned(text) == {c \in Callers : storeCalls[c].pc = "done" /\ storeCalls[c].cv_text = text}

\* C11: concurrent store_cv calls with the same cv_text, interleaved in any
\* way between the find and the insert, leave at most one document of that
\* cv_id, at most one of them answers 'stored' (exactly one once all have
\* returned), and every other one answers 'already_exists', none an error.
C11_ConcurrentStoresDeduplicate ==
    \A text \in RaceTexts :
        /\ \A c \in Returned(text) : storeCalls[c].status \in {"stored", "already_exists"}
        /\ Cardinality({c \in Returned(text) : storeCalls[c].status = "stored"}) <= 1
        /\ Cardinality(StoredDocs(Sha256Hex(text))) <= 1
        /\ Returned(text) = Callers =>
              Cardinality({c \in Returned(text) : storeCalls[c].status = "stored"}) = 1

(* ------------------- properties of redelivery -------------------------- *)
\* The copies of the tracked event the broker still holds.
TrackedHeld == {i \in 1..Len(queue) : queue[i].body = TrackedBody}
                  \cup {-i : i \in {j \in 1..Len(inflight) : inflight[j].body = TrackedBody}}

\* C12: an event published once, whose processing raises on the first
\* delivery and returns normally on the second (the channel taking the
\* settlement), is delivered exactly twice: the second run acks it, the
\* broker holds it no longer and there is no third delivery.
C12_RetriedOnceThenAcked ==
    (/\ redelivery.enqueued = 1
     /\ Len(redelivery.log) >= 2
     /\ redelivery.log[1].processRaised /\ redelivery.log[1].settle # "none"
     /\ redelivery.log[2].processed /\ ~redelivery.log[2].processRaised
     /\ redelivery.log[2].settle # "none")
    => /\ redelivery.log[1].settle = "nack_requeue"
       /\ redelivery.log[2].settle = "ack"
       /\ redelivery.delivered = 2
       /\ Len(redelivery.log) = 2
       /\ TrackedHeld = {}

C12_Witness ==
    /\ redelivery.enqueued = 1
    /\ redelivery.delivered = 2
    /\ Len(redelivery.log) = 2
    /\ redelivery.log[1].processRaised
    /\ redelivery.log[2].settle = "ack"
    /\ consumer = "consuming"

(* ------------------- properties of the prefetch limit ------------------ *)
\* C13: with prefetch_count = 1 at most one event is delivered and not yet
\* settled at any time, so a second event waits in the queue until callback
\* has settled the first and no two callback runs overlap.
C13_OneUnsettledDelivery == Len(inflight) <= 1

C13_Witness ==
    /\ consumer = "consuming"
    /\ Len(inflight) = 1
    /\ queue # <<>>
    /\ cbLast.ran

LastChunks == Pipeline[ingestLast.last.record].chunks

\* The metadata the backend holds under the id of chunk number i (from 1).
SentMetadata(i) ==
    index[CHOOSE j \in 1..Len(index) :
              index[j].id = vector_id(ingestLast.last.cv_id, LastChunks[i], i - 1)].metadata

NotNone(xs) == SelectSeq(xs, LAMBDA x : ~IsNone(x))

\* C15: the metadata sent to the vector backend holds no None, and every
\* value is a string, a number or a list of strings: a string or number of
\* the chunk's metadata is sent unchanged, a None entry is left out, a list
\* is sent as the strings of its non-None elements, and any other composite
\* value as its string form.
C15_MetadataSanitised ==
    /\ \A j \in 1..Len(index) : \A n \in 1..Len(index[j].metadata.v) :
          LET v == index[j].metadata.v[n][2]
          IN  \/ v.t \in {"str", "int"}
              \/ v.t = "list" /\ \A e \in 1..Len(v.v) : v.v[e].t = "str"
    /\ ingestLast.last.status = "upserted" =>
          \A i \in 1..Len(LastChunks) : \A n \in 1..Len(LastChunks[i].metadata.v) :
              LET k == LastChunks[i].metadata.v[n][1]
                  v == LastChunks[i].metadata.v[n][2]
                  sent == Get(SentMetadata(i), k)
              IN  CASE v.t = "none" -> ~DictHas(SentMetadata(i), k)
                    [] v.t \in {"str", "int"} -> sent = v
                    [] v.t = "list" ->
                          /\ sent.t = "list"
                          /\ Len(sent.v) = Len(NotNone(v.v))
                          /\ \A e \in 1..Len(sent.v) :
                                sent.v[e] = PyStr(ToStr(NotNone(v.v)[e]))
                    [] OTHER -> sent = PyStr(ToStr(v))

\* Reached: a chunk with a None entry, a number and a list holding a number
\* and a None was upserted, and so was one with a dict.
C15_Witness ==
    /\ ingestLast.last.status = "upserted"
    /\ \E i \in 1..Len(LastChunks) :
          /\ IsNone(Get(LastChunks[i].metadata, Key.link))
          /\ Get(LastChunks[i].metadata, Key.technologies) =
                 PyList(<<Txt.x, PyInt(7), None>>)
          /\ Get(SentMetadata(i), Key.proj_index) = PyInt(0)
    /\ \E i \in 1..Len(LastChunks) :
          IsDict(Get(LastChunks[i].metadata, Key.technologies))

\* C16: for every upserted chunk the entries cv_id, section and raw_text of
\* the final metadata are the record's cv_id, the chunk's section and the
\* chunk's text, whatever keys the chunk's own metadata carries.
C16_ReservedEntries ==
    ingestLast.last.status = "upserted" =>
        \A i \in 1..Len(LastChunks) :
            /\ Get(SentMetadata(i), Key.cv_id) = PyStr(ingestLast.last.cv_id)
            /\ Get(SentMetadata(i), Key.section) = PyStr(LastChunks[i].section)
            /\ Get(SentMetadata(i), Key.raw_text) = PyStr(LastChunks[i].text)

\* Reached: the chunk of an education entry, whose metadata takes over the
\* keys of the entry, was upserted beside another chunk.
C16_Witness ==
    /\ ingestLast.last.status = "upserted"
    /\ Len(LastChunks) >= 2
    /\ \E i \in 1..Len(LastChunks) :
          /\ Get(LastChunks[i].metadata, Key.type) = PyStr(Lit.object)
          /\ DictHas(LastChunks[i].metadata, Key.institution)

(* ---------------------- properties of the embedder --------------------- *)
Blank(text) == Strip(text) = <<>>

\* C17: embed_chunks on a batch in which the text of some chunk is empty
\* after trimming fails with the empty-input error and attaches no embedding
\* (a call that fails because the model cannot be loaded is left aside).
C17_BlankChunkFailsEmbedding ==
    (/\ embedLast.op = "embed_chunks"
     /\ embedLast.error # "load"
     /\ \E i \in 1..Len(embedLast.texts) : Blank(embedLast.texts[i]))
    => /\ embedLast.raised
       /\ embedLast.error = "empty"
       /\ embedLast.out = <<>>

\* C18: in one process the first call of get_model that finds no model loads
\* it; once a load has succeeded no later call loads again and every later
\* call returns that same instance, so the model is loaded at most once.
C18_ModelLoadedOnce ==
    [][/\ model.instance # 0 => model' = model
       /\ model'.loads <= 1
       /\ (model.instance = 0 /\ ~embedLast'.raised /\ embedLast'.out # <<>>) =>
              model'.loads = model.loads + 1 /\ model'.instance # 0
       /\ (~embedLast'.raised /\ embedLast'.out # <<>>) =>
              embedLast'.instance = model'.instance /\ model'.instance # 0]_vars

\* Reached: a call that found the model loaded returned embeddings of a
\* batch of several chunks from the one instance.
C18_Witness ==
    /\ embedLast.cached
    /\ embedLast.op = "embed_chunks"
    /\ ~embedLast.raised
    /\ Len(embedLast.out) >= 2
    /\ embedLast.instance = model.instance
    /\ model.loads = 1

(* ---------------------- properties of get_latest ----------------------- *)
\* C19: get_latest, asked of a storing service that is up, returns a stored
\* record whose created_at no other record exceeds, and fails with not-found
\* when nothing is stored.
C19_GetLatestReturnsNewest ==
    (storeLast.op = "get_latest_cv" /\ storeLast.code # 0) =>
        IF collection = <<>>
        THEN storeLast.status = "error" /\ storeLast.code = 404
        ELSE /\ storeLast.status = "ok"
             /\ \E i \in 1..Len(collection) :
                   /\ storeLast.doc = collection[i]
                   /\ \A k \in 1..Len(collection) :
                         collection[k].created_at <= collection[i].created_at

(* ------------------- properties of the stored document ----------------- *)
\* C20: a store_cv call that answers 'stored' appends the document of its
\* request, and no store_cv or get step changes a stored document afterwards:
\* get_cv_by_id returns the one document of that cv_id, with the cv_text,
\* structured_sections, metadata and timestamps of the first store.
C20_StoredDocumentImmutable ==
    [][/\ Len(collection') >= Len(collection)
       /\ \A i \in 1..Len(collection) : collection'[i] = collection[i]
       /\ storeLast'.status = "stored" =>
             /\ Len(collection') = Len(collection) + 1
             /\ collection'[Len(collection')].cv_text = storeLast'.cv_text.v
             /\ collection'[Len(collection')].cv_id = storeLast'.cv_id
             /\ collection'[Len(collection')].structured_sections =
                    DictGet(storeLast'.structured_json, Key.structured_sections, EmptyDict)
             /\ collection'[Len(collection')].metadata =
                    DictGet(storeLast'.structured_json, Key.metadata, EmptyDict)
             /\ collection'[Len(collection')].created_at = clock
       /\ (storeLast'.op = "get_cv" /\ storeLast'.code = 200) =>
             /\ Cardinality(StoredDocs(storeLast'.cv_id)) = 1
             /\ \A i \in StoredDocs(storeLast'.cv_id) : storeLast'.doc = collection[i]]_vars

\* Reached: get_cv returned the document of the first store after a store of
\* another text and a repeated store of its own text.
C20_Witness ==
    /\ storeLast.op = "get_cv"
    /\ storeLast.code = 200
    /\ Len(collection) = 2
    /\ storeLast.doc = collection[1]
    /\ collection[1].created_at < collection[2].created_at
    /\ Cardinality(answers) >= 2

(* ------------------- properties of endless redelivery ------------------ *)
\* The copies of a body that the broker holds, queued or delivered.
Copies(body, messages) ==
    Cardinality({i \in 1..Len(messages) : messages[i].body = body})

Delivered(body) == inflight # <<>> /\ Head(inflight).body = body

\* callback has just sent the body back: it is the head of the queue again.
SentBack(body) ==
    /\ cbLast.ran /\ cbLast.body = body
    /\ inflight = <<>>
    /\ queue # <<>> /\ Head(queue).body = body

\* C26: an event whose processing fails on every delivery is never taken
\* from the broker: no step acknowledges, drops or moves it aside, the one
\* settlement callback issues for it is basic_nack(requeue=True), and once it
\* has been delivered it is delivered and sent back again and again for as
\* long as the consumer runs; nothing bounds the number of deliveries.
C26_FailingEventRedeliveredWithoutEnd ==
    /\ [][Copies(UnknownRecord, queue' \o inflight')
              >= Copies(UnknownRecord, queue \o inflight)]_vars
    /\ []((cbLast.ran /\ cbLast.body = UnknownRecord) =>
              (cbLast.processRaised /\ cbLast.calls = <<"nack_requeue">>))
    /\ [](Delivered(UnknownRecord) =>
              \/ <>(consumer = "stopped")
              \/ ([]<>Delivered(UnknownRecord) /\ []<>SentBack(UnknownRecord)))

\* Reached: the event was sent back by callback and is delivered once more,
\* the consumer still consuming.
C26_Witness ==
    /\ consumer = "consuming"
    /\ cbLast.ran /\ cbLast.body = UnknownRecord
    /\ cbLast.settle = "nack_requeue"
    /\ Delivered(UnknownRecord)

(* ------------------- properties of the settlement ---------------------- *)
\* C27: for every delivery handed to callback exactly one settlement is
\* issued on the channel: one basic_ack, or one basic_nack with requeue=True,
\* or one basic_nack with requeue=False, never none and never a second one.
C27_OneSettlementPerDelivery ==
    cbLast.ran =>
        /\ Len(cbLast.calls) = 1
        /\ cbLast.calls[1] \in {"ack", "nack_requeue", "nack_drop"}

\* What holds of callback on a channel that takes the settlement.
OneSettlementOnOpenChannel ==
    (cbLast.ran /\ ~cbLast.escaped) =>
        /\ Len(cbLast.calls) = 1
        /\ cbLast.settle = cbLast.calls[1]

(* ------------------- properties of the delivery ------------------------ *)
\* C29: while the vector service runs, an event that waits in the durable
\* queue is eventually delivered to callback, also when the broker was
\* unreachable at startup or the consumer's connection dropped in between.
C29_QueuedEventEventuallyDelivered ==
    (queue # <<>>) ~> (inflight # <<>>)

\* What holds instead: the event is delivered unless the consumer has stopped.
DeliveredUnlessStopped ==
    (queue # <<>>) ~> (inflight # <<>> \/ consumer = "stopped")

(* ------------------- properties of attach_cv --------------------------- *)
\* C30: when attach_cv receives a non-empty CV text, GeminiService returns a
\* structured CV and the storing service is reachable and working, the
\* request the gateway sends is accepted by POST /internal/store_cv and
\* attach_cv answers with the cv_id the storing service assigned, the
\* SHA-256 digest of the resolved text.
C30_AttachReturnsStoredId ==
    (/\ attachLast.ran
     /\ IsStr(attachLast.cv_text) /\ Strip(attachLast.cv_text.v) # <<>>
     /\ attachLast.gemini # "raise"
     /\ attachLast.storeUp /\ attachLast.mongoUp) =>
        /\ ValidStoreCVRequest(attachLast.sent)
        /\ storeLast.op = "store_cv" /\ storeLast.code = 200
        /\ attachLast.code = 200
        /\ attachLast.cv_id = PyStr(Sha256Hex(Strip(attachLast.cv_text.v)))

\* What attach_cv does answer: 400 to a blank text, 502 to all the others.
AttachNeverSucceeds ==
    attachLast.ran => attachLast.code \in {400, 502}

=============================================================================
